---- MODULE Spec2Model ----
(***************************************************************************)
(* A model of the incremental build layer of the repository:               *)
(*   - WebpackResourceLoader (resource_loader.ts, src/unnamed/part_004),   *)
(*   - AngularWebpackPlugin  (ivy/plugin.ts,      src/unnamed/part_005),   *)
(*   - getOutputHashFormat and normalizeExtraEntryPoints                   *)
(*     (webpack/utils/helpers.ts, src/unnamed/part_001),                   *)
(*   - the schematics TaskScheduler (described in spec.md section 4.4),    *)
(*   - chain(rules) of the schematics engine (spec.md section 4.3).        *)
(* One state, fifteen specifications:                                      *)
(*   SpecLoaderMaps, SpecLoaderQuery, SpecLoader  the resource loader      *)
(*     alone: its dependency maps, its modified-resource query, get();     *)
(*   SpecPlugin       compile cycles of the plugin: analysis, file         *)
(*                    emitter, finishModules;                              *)
(*   SpecPluginCache  compile cycles while files are written: the          *)
(*                    source-file cache and the changed files;             *)
(*   SpecTasks        the task scheduler;                                  *)
(*   SpecChain        chain(rules);                                        *)
(*   SpecBuildUtils   the two build utilities;                             *)
(*   SpecRunner       schematic runs of the SchematicTestRunner            *)
(*                    (testing/schematic-test-runner.ts,                   *)
(*                    src/unnamed/part_000);                               *)
(*   SpecOptimization normalizeOptimization;                               *)
(*   SpecAppShell     the app-shell builder;                               *)
(*   SpecIndexHtml    IndexHtmlGenerator;                                  *)
(*   SpecScripts      the global scripts of getCommonConfig;               *)
(*   SpecTslint       the update-tslint migration.                         *)
(* The last five are modelled from the files under src/packages.           *)
(***************************************************************************)
EXTENDS Integers, Sequences, FiniteSets, TLC

(***************************************************************************)
(* Bounds of the model.                                                    *)
(***************************************************************************)
\* runs of the sandbox on one content
MaxEvaluations == 2
\* update() calls made on one loader (one per parent compilation)
MaxUpdates == 2
\* compile cycles of one plugin instance
MaxCycles == 2
\* the last value of the clock read by Date.now() and by file timestamps
MaxTime == 2
\* tasks scheduled in one schematic run
MaxTasks == 3
\* rules handed to one chain()
MaxRules == 3
\* the longest hash length passed to getOutputHashFormat
MaxHashLength == 3
\* schematic runs created on one SchematicTestRunner
MaxRuns == 2
\* tasks one schematic run adds
MaxRunTasks == 2
\* entries of one styles or scripts option
MaxEntries == 2

(***************************************************************************)
(* Optional values: None is JavaScript's undefined, Some(x) a set value.   *)
(***************************************************************************)
None == {}
Some(x) == {x}
IsSome(o) == o # {}
TheValue(o) == CHOOSE x \in o : TRUE

(***************************************************************************)
(* Paths.  A path keeps its directory separator, its name and its          *)
(* extension: what the code below looks at.                                *)
(***************************************************************************)
Path(sep, name, ext) == [sep |-> sep, name |-> name, ext |-> ext]

\* path.sep of the platform the build runs on
Platforms == {"posix", "win32"}
PlatformSep(pf) == IF pf = "win32" THEN "\\" ELSE "/"

\* ./ivy/paths normalizePath: win32-normalise, then backslashes to '/'
normalizePath(p) == [p EXCEPT !.sep = "/"]

\* ./ivy/paths externalizePath: the platform's separator on win32, the
\* path as it is elsewhere
externalizePath(pf, p) == IF pf = "win32" THEN [p EXCEPT !.sep = "\\"] ELSE p

\* filePath.match(/\.[jt]s$/)
IsScriptPath(p) == p.ext \in {"js", "ts"}

\* The resources asked of the loader (templates, styles, and a script the
\* loader has to refuse); the host hands them over normalised.
ResourcePaths ==
  { Path("/", "tpl", "html"), Path("/", "sty", "scss"), Path("/", "cmp", "ts") }

\* What a child compilation lists as file dependencies: the requested file
\* as it was handed over, and what its loaders add with the platform's
\* separator.
RawDepFiles(pf) ==
  { Path("/", "sty", "scss"), Path(PlatformSep(pf), "imp", "scss") }

(***************************************************************************)
(* What a child compilation produces for the requested file.  fullHash is  *)
(* a content hash, so a hash stands for one content; the content's kind    *)
(* says what the sandbox finds in `resource` after running it:             *)
(*   string   a non-empty string          empty    the string ''           *)
(*   default  an object, default a string invalid  anything else, a throw  *)
(*   missing  compilation.assets[filePath] is undefined                    *)
(***************************************************************************)
AssetKinds == {"string", "empty", "default", "invalid", "missing"}
Hashes == [kind : AssetKinds]

\* one content that evaluates to a string
PlainHash == [kind |-> "string"]

\* A string is modelled by the content it was extracted from, '' by the
\* empty sequence.
EmptyString == << >>
StringOf(h) == << h >>

\* (mutant) _evaluate that does not look at resource.default
Evaluate_NoDefault(h) ==
  CASE h.kind = "string" -> Some(StringOf(h))
    [] h.kind = "empty" -> Some(EmptyString)
    [] OTHER -> None

\* _evaluate: the string the sandbox extracts, None when it throws
\* "didn't return a string".
Evaluate(h) ==
  CASE h.kind = "string" -> Some(StringOf(h))
    [] h.kind = "empty" -> Some(EmptyString)
    [] h.kind = "default" -> Some(StringOf(h))
    [] OTHER -> None

\* JavaScript truthiness of a string: '' is falsy
Truthy(s) == s # EmptyString

VARIABLES
  \* ---- WebpackResourceLoader ----
  platform,                 \* the platform of this run
  parentCompilation,        \* _parentCompilation: 0 undefined, else its number
  changedFiles,             \* changedFiles: None or Some(set of paths)
  fileDependencies,         \* _fileDependencies: resource -> set of files
  reverseDependencies,      \* _reverseDependencies: file -> set of resources
  cachedSources,            \* _cachedSources: hash -> source
  cachedEvaluatedSources,   \* _cachedEvaluatedSources: hash -> RawSource
  parentErrors,             \* errors pushed to the current parent compilation
  lastGet,                  \* None, or Some(the last get() call)
  failedNow,                \* files whose child compilation failed under
                            \* the current parent compilation
  failedEarlier,            \* ... and under an earlier one
  evaluations,              \* how often _evaluate ran, per hash
  modifiedResources,        \* what getModifiedResourceFiles last returned
  \* ---- AngularWebpackPlugin ----
  mode,                     \* "jit" if compilerOptions.skipTemplateCodegen
  compilerWatchMode,        \* compiler.watchMode: None, Some(TRUE), Some(FALSE)
  watchMode,                \* this.watchMode
  sourceFileCache,          \* this.sourceFileCache: None or Some(file -> entry)
  hostCache,                \* the cache this cycle's host reads through
  oldBuilder,               \* the builder this cycle's builder was made from
  oldProgram,               \* the program this cycle's NgtscProgram was made from
  buildTimestamp,           \* this.buildTimestamp
  builder,                  \* this.builder: None or Some(cycle that made it)
  ngtscNextProgram,         \* this.ngtscNextProgram, likewise
  requiredFilesToEmit,      \* this.requiredFilesToEmit
  previousUnused,           \* previousUnused of apply()
  pc,                       \* where the current compilation is
  analysis,                 \* pendingAnalysis: none, pending, done, or the
                            \* error it was rejected with
  imports,                  \* this cycle's program: main.ts imports util.ts
  safeToSkipEmit,           \* the files incrementalDriver.safeToSkipEmit
                            \* answers true for in this cycle
  requiredBefore,           \* requiredFilesToEmit as the analysis found it
  modules,                  \* the modules handed to finishModules
  visited,                  \* required files the rebuild loop has been at
  rebuilding,               \* modules handed to rebuildModule that have not
                            \* called back
  pending,                  \* file-emitter calls awaiting pendingAnalysis
  requested,                \* files the file emitter was called for
  emitted,                  \* files program.emit ran for
  successfulEmits,          \* files incrementalDriver.recordSuccessfulEmit
                            \* was called for in this cycle
  lastEmit,                 \* None, or Some(the last settled emitter call)
  warnings,                 \* unused-file warnings of this compilation
  warnedInRun,              \* per file: unused-file warnings since the last
                            \* analysed cycle that found the file used
  now,                      \* the clock
  fileTimestamps,           \* compiler.fileTimestamps
  \* ---- TaskScheduler ----
  taskQueue,                \* the scheduled tasks: TaskId -> dependency ids
  finalized,                \* None, or Some(what finalize() gave)
  executed,                 \* the tasks executed, in order
  \* ---- chain(rules) of the schematics engine ----
  chainRules,               \* the rules handed to chain(), in order
  chainNext,                \* the index of the next rule to call
  chainRunning,             \* rules called whose final Tree is not there yet
  chainTree,                \* the Tree: the markers written to it, in order
  chainOutcome,             \* pending, done, or failed with the failing rule
  ruleInput,                \* rule -> the Tree it was called with
  ruleOutput,               \* rule -> the final Tree it produced
  \* ---- build utilities (webpack/utils/helpers.ts) ----
  hashOption,               \* the last getOutputHashFormat call: its option,
  hashLength,               \* its length (None: not given),
  hashFormat,               \* and what it returned (None: not called yet)
  extraEntryPoints,         \* the last normalizeExtraEntryPoints call: its
  defaultBundleName,        \* arguments,
  normalizedEntryPoints     \* and what it returned (None: not called yet)

loaderVars ==
  << platform, parentCompilation, changedFiles, fileDependencies,
     reverseDependencies, cachedSources, cachedEvaluatedSources, parentErrors,
     lastGet, failedNow, failedEarlier, evaluations, modifiedResources >>

pluginVars ==
  << mode, compilerWatchMode, watchMode, sourceFileCache, hostCache,
     oldBuilder, oldProgram, buildTimestamp,
     builder, ngtscNextProgram, requiredFilesToEmit, previousUnused, pc,
     analysis, imports, safeToSkipEmit, requiredBefore, modules, visited,
     rebuilding,
     pending, requested, emitted, successfulEmits, lastEmit, warnings,
     warnedInRun, now, fileTimestamps >>

taskVars == << taskQueue, finalized, executed >>

chainVars ==
  << chainRules, chainNext, chainRunning, chainTree, chainOutcome, ruleInput,
     ruleOutput >>

\* the state of the schematics rules and of the build utilities
utilVars ==
  << hashOption, hashLength, hashFormat, extraEntryPoints, defaultBundleName,
     normalizedEntryPoints >>

VARIABLES
  \* ---- SchematicTestRunner ----
  runsCreated,      \* calls of runSchematicAsync / runExternalSchematicAsync
  runState,         \* per run: its observable's state
  runExternal,      \* per run: made by runExternalSchematicAsync
  engineTasks,      \* _engineHost.tasks, the recorded task configurations
  scheduledTasks,   \* per run: the tasks its schematic has added
  returnedTasks     \* the array the last read of `tasks` returned

runnerVars ==
  << runsCreated, runState, runExternal, engineTasks, scheduledTasks,
     returnedTasks >>

VARIABLES
  \* ---- normalizeOptimization ----
  optimizationInput,         \* the optimization option handed in
  normalizedOptimization,    \* None, or Some(what the call returned)
  renormalizedOptimization   \* None, or Some(what a call on that returned)

optimizationVars ==
  << optimizationInput, normalizedOptimization, renormalizedOptimization >>

VARIABLES
  \* ---- _appShellBuilder ----
  shellPc,              \* where the builder stands
  browserOptimization,  \* browserOptions.optimization of the browser target
  browserSchedule,      \* None, or Some(overrides the browser target got)
  serverSchedule,       \* None, or Some(overrides the server target got)
  browserBuild,         \* browserTargetRun.result
  serverBuild,          \* serverTargetRun.result
  spinner,              \* the spinner: none, started, succeeded, failed
  rendered,             \* _renderUniversal was called
  browserStop,          \* browserTargetRun.stop(): none, called, done
  serverStop,           \* serverTargetRun.stop(): none, called, done
  shellOutcome,         \* None, or Some(what try / catch came to)
  shellResult           \* None, or Some(what the builder's promise gave)

shellVars ==
  << shellPc, browserOptimization, browserSchedule, serverSchedule,
     browserBuild, serverBuild, spinner, rendered, browserStop, serverStop,
     shellOutcome, shellResult >>

VARIABLES
  \* ---- IndexHtmlGenerator ----
  htmlOptions,    \* options: optimization and whether postTransform is set
  htmlPlugins,    \* None, or Some(this.plugins) once constructed
  htmlPc,         \* new, constructed, processing, returned
  htmlRunning,    \* a plugin was called and has not settled
  htmlContent,    \* content of process()
  htmlWarnings,   \* warnings of process()
  htmlErrors,     \* errors of process()
  htmlCalls,      \* the plugin calls made: plugin and html handed in
  htmlResults,    \* what the called plugins resolved with
  htmlReturned    \* None, or Some(what process() returned)

htmlVars ==
  << htmlOptions, htmlPlugins, htmlPc, htmlRunning, htmlContent,
     htmlWarnings, htmlErrors, htmlCalls, htmlResults, htmlReturned >>

VARIABLES
  \* ---- getCommonConfig: the global scripts ----
  scriptsOption,      \* buildOptions.scripts
  scriptFiles,        \* the script inputs that exist or resolve
  scriptsHashing,     \* buildOptions.outputHashing
  scriptsOutcome      \* None, or Some(the error thrown or the plugins added)

scriptsVars ==
  << scriptsOption, scriptFiles, scriptsHashing, scriptsOutcome >>

VARIABLES
  \* ---- update-tslint migration ----
  tslintDependency,   \* the tslint entry of package.json: None or Some(it)
  tslintConfig,       \* /tslint.json: None (not there, not JSON) or Some(it)
  tslintAfter         \* None, or Some(the tree and the log after the rule)

tslintVars ==
  << tslintDependency, tslintConfig, tslintAfter >>

\* the state of the test runner and of the builders
toolVars ==
  << runnerVars, optimizationVars, shellVars, htmlVars,
     scriptsVars, tslintVars >>

\* everything but the state of the test runner and of the builders
coreVars == << loaderVars, pluginVars, taskVars, chainVars, utilVars >>

\* what the actions on runnerVars leave alone
runnerFrame ==
  << coreVars, optimizationVars, shellVars, htmlVars,
     scriptsVars, tslintVars >>

\* what the actions on optimizationVars leave alone
optimizationFrame ==
  << coreVars, runnerVars, shellVars, htmlVars,
     scriptsVars, tslintVars >>

\* what the actions on shellVars leave alone
shellFrame ==
  << coreVars, runnerVars, optimizationVars, htmlVars,
     scriptsVars, tslintVars >>

\* what the actions on htmlVars leave alone
htmlFrame ==
  << coreVars, runnerVars, optimizationVars, shellVars,
     scriptsVars, tslintVars >>

\* what the actions on scriptsVars leave alone
scriptsFrame ==
  << coreVars, runnerVars, optimizationVars, shellVars,
     htmlVars, tslintVars >>

\* what the actions on tslintVars leave alone
tslintFrame ==
  << coreVars, runnerVars, optimizationVars, shellVars,
     htmlVars, scriptsVars >>

otherVars == << chainVars, utilVars, toolVars >>

vars == << loaderVars, pluginVars, taskVars, otherVars >>

(***************************************************************************)
(* Maps: a JavaScript Map is a function on the keys it holds.              *)
(***************************************************************************)
EmptyMap == [k \in {} |-> {}]
MapSet(m, k, v) == [x \in DOMAIN m \cup {k} |-> IF x = k THEN v ELSE m[x]]
MapHas(m, k) == k \in DOMAIN m

\* the normalised forms of the files a child compilation can depend on
NormDepFiles == { normalizePath(f) : f \in RawDepFiles("posix") }

(***************************************************************************)
(* WebpackResourceLoader                                                   *)
(***************************************************************************)
InitLoader ==
  /\ platform \in Platforms
  /\ parentCompilation = 0
  /\ changedFiles = None
  /\ fileDependencies = EmptyMap
  /\ reverseDependencies = EmptyMap
  /\ cachedSources = EmptyMap
  /\ cachedEvaluatedSources = EmptyMap
  /\ parentErrors = {}
  /\ lastGet = None
  /\ failedNow = {}
  /\ failedEarlier = {}
  /\ evaluations = [h \in Hashes |-> 0]
  /\ modifiedResources = {}

\* update(parentCompilation, changedFiles), as an effect on the loader; the
\* calls settled under the earlier parent compilation are over
LoaderUpdate(cf) ==
  /\ parentCompilation' = parentCompilation + 1
  /\ changedFiles' = cf
  /\ lastGet' = None
  /\ failedEarlier' = failedEarlier \cup failedNow
  /\ failedNow' = {}

\* getResourceDependencies(filePath)
getResourceDependencies(filePath) ==
  IF MapHas(fileDependencies, filePath) THEN fileDependencies[filePath] ELSE {}

\* getAffectedResources(file)
getAffectedResources(file) ==
  IF MapHas(reverseDependencies, file) THEN reverseDependencies[file] ELSE {}

\* (mutant) the loop also follows each affected resource as a changed file
RECURSIVE CollectAffected_Transitive(_, _)
CollectAffected_Transitive(files, modified) ==
  IF files = {} THEN modified
  ELSE LET changedFile == CHOOSE f \in files : TRUE
           affected == getAffectedResources(changedFile)
       IN CollectAffected_Transitive(
            (files \cup { a \in affected : a \notin modified }) \ {changedFile},
            modified \cup affected)

\* the loop of getModifiedResourceFiles over the changed files
RECURSIVE CollectAffected(_, _)
CollectAffected(files, modified) ==
  IF files = {} THEN modified
  ELSE LET changedFile == CHOOSE f \in files : TRUE
       IN CollectAffected(files \ {changedFile},
                          modified \cup getAffectedResources(changedFile))

\* getModifiedResourceFiles()
getModifiedResourceFiles ==
  IF ~IsSome(changedFiles) THEN {}
  ELSE CollectAffected(TheValue(changedFiles), {})

\* update() called by the owner of the loader with a new parent compilation
Update(cf) ==
  /\ parentCompilation < MaxUpdates
  /\ LoaderUpdate(cf)
  /\ parentErrors' = {}
  /\ UNCHANGED << platform, fileDependencies, reverseDependencies,
                  cachedSources, cachedEvaluatedSources, evaluations,
                  modifiedResources >>
  /\ UNCHANGED pluginVars
  /\ UNCHANGED taskVars
  /\ UNCHANGED otherVars

\* a caller asks getModifiedResourceFiles()
QueryModifiedResources ==
  /\ modifiedResources' = getModifiedResourceFiles
  /\ UNCHANGED << platform, parentCompilation, changedFiles, fileDependencies,
                  reverseDependencies, cachedSources, cachedEvaluatedSources,
                  parentErrors, lastGet, failedNow, failedEarlier,
                  evaluations >>
  /\ UNCHANGED pluginVars
  /\ UNCHANGED taskVars
  /\ UNCHANGED otherVars

\* setAffectedResources(file, resources)
SetAffectedResources(file, resources) ==
  /\ reverseDependencies' = MapSet(reverseDependencies, file, resources)
  /\ UNCHANGED << platform, parentCompilation, changedFiles, fileDependencies,
                  cachedSources, cachedEvaluatedSources, parentErrors,
                  lastGet, failedNow, failedEarlier, evaluations,
                  modifiedResources >>
  /\ UNCHANGED pluginVars
  /\ UNCHANGED taskVars
  /\ UNCHANGED otherVars

\* One get() call as its caller and the bundler see it: the file asked for,
\* how its promise settled, the child compilers it created, whether its
\* child compilation failed, the hash of the child compilation, whether the
\* hook found that hash in _cachedEvaluatedSources, and the source the
\* promise resolved with.
Call(filePath, settled, compilers, failed, h, cached, source) ==
  [ filePath |-> filePath, settled |-> settled, compilers |-> compilers,
    failed |-> failed, hash |-> h, cached |-> cached, source |-> source ]

\* the record of a get() call that settled as `call`
Settle(call) ==
  /\ lastGet' = Some(call)
  /\ failedNow' = IF call.failed THEN failedNow \cup {call.filePath}
                   ELSE failedNow
  /\ UNCHANGED failedEarlier

\* (mutant) _compile without its sanity check of the file path
Refused_NoSanityCheck(filePath) == parentCompilation = 0

\* _compile refuses the file before it creates a child compiler: no parent
\* compilation is set, or the path ends in .js or .ts
Refused(filePath) == parentCompilation = 0 \/ IsScriptPath(filePath)

\* get(filePath) refused by _compile before any child compiler exists: no
\* parent compilation (a throw in the async function), or a script path
GetRefused(filePath) ==
  /\ Refused(filePath)
  /\ Settle(Call(filePath, "rejected", 0, FALSE, None, FALSE, None))
  /\ UNCHANGED << platform, parentCompilation, changedFiles, fileDependencies,
                  reverseDependencies, cachedSources, cachedEvaluatedSources,
                  parentErrors, evaluations, modifiedResources >>
  /\ UNCHANGED pluginVars
  /\ UNCHANGED taskVars
  /\ UNCHANGED otherVars

\* (mutant) a failed child compilation is tried a second time
GetCompileFails_Retry(filePath) ==
  /\ ~Refused(filePath)
  /\ Settle(Call(filePath, "rejected", 2, TRUE, None, FALSE, None))
  /\ UNCHANGED << platform, parentCompilation, changedFiles, fileDependencies,
                  reverseDependencies, cachedSources, cachedEvaluatedSources,
                  parentErrors, evaluations, modifiedResources >>
  /\ UNCHANGED pluginVars
  /\ UNCHANGED taskVars
  /\ UNCHANGED otherVars

\* get(filePath) whose child compilation cannot be made at all: compile()
\* calls back with an error before its hooks run
GetCompileFails(filePath) ==
  /\ ~Refused(filePath)
  /\ Settle(Call(filePath, "rejected", 1, TRUE, None, FALSE, None))
  /\ UNCHANGED << platform, parentCompilation, changedFiles, fileDependencies,
                  reverseDependencies, cachedSources, cachedEvaluatedSources,
                  parentErrors, evaluations, modifiedResources >>
  /\ UNCHANGED pluginVars
  /\ UNCHANGED taskVars
  /\ UNCHANGED otherVars

\* (mutant) the reverse map keyed by the files as the bundler spells them
SaveReverseDependencies_Raw(filePath, deps) ==
  [ k \in DOMAIN reverseDependencies \cup deps |->
      (IF MapHas(reverseDependencies, k) THEN reverseDependencies[k] ELSE {})
        \cup (IF k \in deps THEN {filePath} ELSE {}) ]

\* the reverse map after the dependencies of filePath have been saved
SaveReverseDependencies(filePath, deps) ==
  LET resolved == { normalizePath(file) : file \in deps }
  IN [ k \in DOMAIN reverseDependencies \cup resolved |->
         (IF MapHas(reverseDependencies, k) THEN reverseDependencies[k] ELSE {})
           \cup (IF k \in resolved THEN {filePath} ELSE {}) ]

\* (mutant) the hook evaluates without looking into the cache
AdditionalAssets_NoCacheCheck(h) ==
  IF h.kind # "missing"
    THEN IF IsSome(Evaluate(h))
           THEN [ ran |-> TRUE, err |-> FALSE,
                  cache |-> MapSet(cachedEvaluatedSources, h, TheValue(Evaluate(h))),
                  asset |-> Evaluate(h) ]
           ELSE [ ran |-> TRUE, err |-> TRUE, cache |-> cachedEvaluatedSources,
                  asset |-> None ]
  ELSE [ ran |-> FALSE, err |-> FALSE, cache |-> cachedEvaluatedSources,
         asset |-> None ]

\* The additionalAssets hook of a child compilation with hash h.
\*   ran:    _evaluate was called
\*   err:    the hook called back with an error
\*   cache:  _cachedEvaluatedSources after the hook
\*   asset:  compilation.assets[filePath] after the hook
AdditionalAssets(h) ==
  IF MapHas(cachedEvaluatedSources, h)
    THEN [ ran |-> FALSE, err |-> FALSE, cache |-> cachedEvaluatedSources,
           asset |-> Some(cachedEvaluatedSources[h]) ]
  ELSE IF h.kind # "missing"
    THEN IF IsSome(Evaluate(h))
           THEN [ ran |-> TRUE, err |-> FALSE,
                  cache |-> MapSet(cachedEvaluatedSources, h, TheValue(Evaluate(h))),
                  asset |-> Evaluate(h) ]
           ELSE [ ran |-> TRUE, err |-> TRUE, cache |-> cachedEvaluatedSources,
                  asset |-> None ]
  ELSE [ ran |-> FALSE, err |-> FALSE, cache |-> cachedEvaluatedSources,
         asset |-> None ]

\* get(filePath) whose child compilation runs: its additionalAssets hook,
\* then (sealErr) a failure later in the compilation or the callback without
\* error, and in that case the rest of _compile: errors to the parent, the
\* two dependency maps, the source by hash.
\*   h         childCompilation.fullHash (and the content it stands for)
\*   deps      childCompilation.fileDependencies
\*   hasErrors childCompilation.errors is not empty
GetCompileRuns(filePath, h, deps, hasErrors, sealErr) ==
  /\ ~Refused(filePath)
  /\ LET hook == AdditionalAssets(h)
         cached == MapHas(cachedEvaluatedSources, h)
         maybeSource == IF MapHas(cachedSources, h) THEN Some(cachedSources[h])
                        ELSE None
     IN /\ evaluations' = IF hook.ran
                            THEN [evaluations EXCEPT ![h] = @ + 1]
                            ELSE evaluations
        /\ cachedEvaluatedSources' = hook.cache
        /\ IF hook.err \/ sealErr
             THEN /\ Settle(Call(filePath, "rejected", 1, TRUE, Some(h), cached,
                                 None))
                  /\ UNCHANGED << parentErrors, fileDependencies,
                                  reverseDependencies, cachedSources >>
             ELSE /\ parentErrors' = IF hasErrors
                                       THEN parentErrors \cup {filePath}
                                       ELSE parentErrors
                  /\ fileDependencies' = MapSet(fileDependencies, filePath, deps)
                  /\ reverseDependencies' = SaveReverseDependencies(filePath, deps)
                  /\ IF IsSome(maybeSource) /\ Truthy(TheValue(maybeSource))
                       THEN /\ Settle(Call(filePath, "resolved", 1, FALSE,
                                           Some(h), cached, maybeSource))
                            /\ UNCHANGED cachedSources
                     ELSE IF ~IsSome(hook.asset)
                       \* assets[filePath] is undefined: .source() throws
                       THEN /\ Settle(Call(filePath, "rejected", 1, FALSE,
                                           Some(h), cached, None))
                            /\ UNCHANGED cachedSources
                     ELSE /\ cachedSources' =
                               MapSet(cachedSources, h, TheValue(hook.asset))
                          /\ Settle(Call(filePath, "resolved", 1, FALSE,
                                         Some(h), cached, hook.asset))
  /\ UNCHANGED << platform, parentCompilation, changedFiles, modifiedResources >>
  /\ UNCHANGED pluginVars
  /\ UNCHANGED taskVars
  /\ UNCHANGED otherVars

(***************************************************************************)
(* AngularWebpackPlugin: the program of a compile cycle                    *)
(***************************************************************************)
\* sourceFile.fileName of the files of the program, and a file outside it
MainFile == Path("/", "main", "ts")
UtilFile == Path("/", "util", "ts")
TypesFile == Path("/", "types", "d.ts")
ShimFile == Path("/", "main", "ngtypecheck.ts")
OtherFile == Path("/", "other", "ts")

\* sourceFile.isDeclarationFile
IsDeclarationFile(f) == f.ext = "d.ts"

\* angularCompiler.ignoreForEmit: the type-check files of the Angular program
ignoreForEmit == {ShimFile}

\* builder.getSourceFiles(): the AOT builder wraps the program of
\* NgtscProgram, which adds its type-check files
ProgramFiles(m) ==
  {MainFile, UtilFile, TypesFile} \cup (IF m = "aot" THEN ignoreForEmit ELSE {})

\* internalFiles as updateAotProgram / updateJitProgram return it
internalFiles(m) == IF m = "aot" THEN ignoreForEmit ELSE {}

\* allProgramFiles of the thisCompilation handler
allProgramFiles(m) == { f \in ProgramFiles(m) : f \notin internalFiles(m) }

\* builder.getAllDependencies(sourceFile), in a program where main.ts
\* imports util.ts (imp) or does not
AllDependencies(f, imp) ==
  IF f = MainFile
    THEN {MainFile, TypesFile} \cup (IF imp THEN {UtilFile} ELSE {})
    ELSE {f}

\* angularCompiler.getResourceDependencies(sourceFile): main.ts declares a
\* component with a template and a stylesheet
ResourceDependencies(f) ==
  IF f = MainFile THEN {Path("/", "tpl", "html"), Path("/", "sty", "scss")}
  ELSE {}

\* getDependencies of updateAotProgram
getDependencies(f) ==
  UNION { {resourcePath} \cup getResourceDependencies(resourcePath) :
            resourcePath \in ResourceDependencies(f) }

\* getExtraDependencies as each mode passes it to createFileEmitter
getExtraDependencies(f) == IF mode = "aot" THEN getDependencies(f) ELSE {}

\* the error a diagnostics reporter adds to compilation.errors
DiagnosticError == Path("", "diagnostic", "")

\* the source files whose timestamps move in this model
TouchedFiles == {MainFile, UtilFile}

(***************************************************************************)
(* SourceFileCache (./cache) and the caching host (./host), after          *)
(* spec.md sections 3 and 4.5.  An entry keeps the timestamp its file had  *)
(* when it was parsed and the cycle that parsed it.                        *)
(***************************************************************************)
CacheEntry(stamp, cycle) == [stamp |-> stamp, cycle |-> cycle]

\* cache.invalidate(fileTimestamps, buildTimestamp): every cached file whose
\* reported timestamp is newer than the last build is evicted and listed
invalidate(cache, timestamps, lastBuild) ==
  LET changed == { f \in DOMAIN cache : timestamps[f] > lastBuild }
  IN [ cache |-> [ f \in DOMAIN cache \ changed |-> cache[f] ],
       changed |-> changed ]

\* augmentHostWithCaching and the creation of the program: a file of the
\* program is parsed unless the cache holds it, and what is parsed is cached
ReadThroughCache(cache, files, timestamps, cycle) ==
  [ f \in DOMAIN cache \cup files |->
      IF MapHas(cache, f) THEN cache[f] ELSE CacheEntry(timestamps[f], cycle) ]

\* (mutant) a cache that is there is used as it is
CacheSetup_Reuse(wm) ==
  IF IsSome(sourceFileCache)
    THEN [ cache |-> TheValue(sourceFileCache), changedFiles |-> None,
           stored |-> TRUE ]
    ELSE [ cache |-> EmptyMap, changedFiles |-> None, stored |-> wm ]

\* (mutant) a new cache is made in every cycle
CacheSetup_AlwaysNew(wm) ==
  [ cache |-> EmptyMap, changedFiles |-> None, stored |-> wm ]

\* (mutant) the build timestamp is recorded before the cache is invalidated
CacheSetup_StampFirst(wm) ==
  IF IsSome(sourceFileCache)
    THEN LET inv == invalidate(TheValue(sourceFileCache), fileTimestamps, now)
         IN [ cache |-> inv.cache, changedFiles |-> Some(inv.changed),
              stored |-> TRUE ]
    ELSE [ cache |-> EmptyMap, changedFiles |-> None, stored |-> wm ]

\* the cache set-up of the thisCompilation handler
\*   cache         the cache handed to the host
\*   changedFiles  what is handed to resourceLoader.update
\*   stored        this.sourceFileCache holds that cache afterwards
CacheSetup(wm) ==
  IF IsSome(sourceFileCache)
    THEN LET inv == invalidate(TheValue(sourceFileCache), fileTimestamps,
                               TheValue(buildTimestamp))
         IN [ cache |-> inv.cache, changedFiles |-> Some(inv.changed),
              stored |-> TRUE ]
    ELSE [ cache |-> EmptyMap, changedFiles |-> None, stored |-> wm ]

(***************************************************************************)
(* AngularWebpackPlugin                                                    *)
(***************************************************************************)
InitPlugin ==
  /\ mode \in {"aot", "jit"}
  /\ compilerWatchMode \in {None, Some(TRUE), Some(FALSE)}
  /\ watchMode = None
  /\ sourceFileCache = None
  /\ hostCache = EmptyMap
  /\ oldBuilder = None
  /\ oldProgram = None
  /\ buildTimestamp = None
  /\ builder = None
  /\ ngtscNextProgram = None
  /\ requiredFilesToEmit = {}
  /\ previousUnused = None
  /\ pc = "idle"
  /\ analysis = "none"
  /\ imports = FALSE
  /\ safeToSkipEmit = {}
  /\ requiredBefore = {}
  /\ modules = {}
  /\ visited = {}
  /\ rebuilding = {}
  /\ pending = {}
  /\ requested = {}
  /\ emitted = {}
  /\ successfulEmits = {}
  /\ lastEmit = None
  /\ warnings = {}
  /\ warnedInRun = [f \in TouchedFiles |-> 0]
  /\ now = 0
  /\ fileTimestamps = [f \in ProgramFiles("aot") |-> 0]

\* The thisCompilation handler up to the start of the analysis: watch mode,
\* configuration diagnostics, the source-file cache, the build timestamp,
\* the update of the resource loader, the program and its builder.
\*   hasDiagnostics  a diagnostics reporter is handed an error
\*   imp             in the program of this cycle main.ts imports util.ts
\*   safeToSkip      the files the new program's incremental driver takes
\*                   for emitted and unchanged (AOT, with an old program)
\* (mutant) what a cycle made is saved in every mode
SaveForNextRebuild_Always(wm, saved, made) == Some(made)

\* "Save for next rebuild": the field of the plugin after a cycle made a
\* new builder or program
SaveForNextRebuild(wm, saved, made) == IF wm THEN Some(made) ELSE saved

ThisCompilation(hasDiagnostics, imp, safeToSkip) ==
  /\ pc \in {"idle", "done", "aborted"}
  /\ (mode = "jit" \/ ~IsSome(ngtscNextProgram)) => safeToSkip = {}
  /\ parentCompilation < MaxCycles
  /\ LET wm == IF IsSome(compilerWatchMode) THEN TheValue(compilerWatchMode)
               ELSE TRUE
         setup == CacheSetup(wm)
         read == ReadThroughCache(setup.cache, ProgramFiles(mode),
                                  fileTimestamps, parentCompilation + 1)
     IN /\ watchMode' = Some(wm)
        /\ hostCache' = read
        /\ sourceFileCache' = IF setup.stored THEN Some(read) ELSE None
        /\ oldBuilder' = builder
        /\ oldProgram' = ngtscNextProgram
        /\ buildTimestamp' = Some(now)
        /\ LoaderUpdate(setup.changedFiles)
        /\ builder' = SaveForNextRebuild(wm, builder, parentCompilation + 1)
        /\ ngtscNextProgram' =
             SaveForNextRebuild(wm, ngtscNextProgram, parentCompilation + 1)
  /\ parentErrors' = IF hasDiagnostics THEN {DiagnosticError} ELSE {}
  /\ pc' = "building"
  /\ analysis' = "pending"
  /\ imports' = imp
  /\ safeToSkipEmit' = safeToSkip
  /\ requiredBefore' = {}
  /\ modules' = {}
  /\ visited' = {}
  /\ rebuilding' = {}
  /\ pending' = {}
  /\ requested' = {}
  /\ emitted' = {}
  /\ successfulEmits' = {}
  /\ lastEmit' = None
  /\ warnings' = {}
  /\ UNCHANGED << platform, fileDependencies, reverseDependencies,
                  cachedSources, cachedEvaluatedSources, evaluations,
                  modifiedResources, mode, compilerWatchMode,
                  requiredFilesToEmit, previousUnused, warnedInRun, now,
                  fileTimestamps >>
  /\ UNCHANGED taskVars
  /\ UNCHANGED otherVars

\* the variables of the plugin that only the thisCompilation handler sets
cycleVars ==
  << mode, compilerWatchMode, watchMode, sourceFileCache, hostCache,
     oldBuilder, oldProgram, buildTimestamp,
     builder, ngtscNextProgram, imports, safeToSkipEmit, now,
     fileTimestamps >>

\* a resource read through the host while the analysis runs: a get() of
\* the loader
LoadResource(filePath, deps, hasErrors) ==
  /\ pc = "building" /\ analysis = "pending"
  /\ GetCompileRuns(filePath, PlainHash, deps, hasErrors, FALSE)

\* the files the loop of the analysis adds to requiredFilesToEmit
RequiredFiles ==
  { f \in ProgramFiles(mode) :
      /\ ~IsDeclarationFile(f)
      /\ f \notin ignoreForEmit
      /\ f \notin safeToSkipEmit }

\* (mutant) the analysis adds to what the set held
AnalysisRequired_NoClear == requiredFilesToEmit \cup RequiredFiles

\* requiredFilesToEmit after the continuation of analyzeAsync()
AnalysisRequired ==
  IF mode = "aot" THEN RequiredFiles ELSE requiredFilesToEmit

\* analyzeAsync() resolves and its continuation runs
\*   hasDiagnostics  the template diagnostics hold an error (AOT)
AnalysisDone(hasDiagnostics) ==
  /\ pc = "building" /\ analysis = "pending"
  /\ analysis' = "done"
  /\ requiredBefore' = requiredFilesToEmit
  /\ requiredFilesToEmit' = AnalysisRequired
  /\ parentErrors' = IF mode = "aot" /\ hasDiagnostics
                       THEN parentErrors \cup {DiagnosticError}
                       ELSE parentErrors
  /\ UNCHANGED << platform, parentCompilation, changedFiles, fileDependencies,
                  reverseDependencies, cachedSources, cachedEvaluatedSources,
                  lastGet, failedNow, failedEarlier, evaluations,
                  modifiedResources >>
  /\ UNCHANGED << cycleVars, previousUnused, pc, modules, visited, rebuilding, pending,
                  requested, emitted, successfulEmits, lastEmit, warnings, warnedInRun >>
  /\ UNCHANGED taskVars
  /\ UNCHANGED otherVars

\* what analyzeAsync() can reject with
AnalysisErrors == { "ResourceError", "CompilerError" }

\* analyzeAsync() rejects: no continuation runs, pendingAnalysis is
\* rejected with the error
AnalysisFails(error) ==
  /\ pc = "building" /\ analysis = "pending"
  /\ analysis' = error
  /\ UNCHANGED loaderVars
  /\ UNCHANGED << cycleVars, requiredFilesToEmit, previousUnused, pc, modules,
                  visited, rebuilding, pending, requested, emitted, successfulEmits, lastEmit, warnings,
                  warnedInRun, requiredBefore >>
  /\ UNCHANGED taskVars
  /\ UNCHANGED otherVars

\* the dependencies in the result of the emitter made by createFileEmitter
EmitDependencies(f) ==
  { externalizePath(platform, d) :
      d \in AllDependencies(f, imports) \cup getExtraDependencies(f) }

\* One settled call of the file emitter: the file, how it settled
\* (undefined, emitted, or the error it was rejected with) and the
\* dependencies of its result.
EmitResult(f, result, dependencies) ==
  [ file |-> f, result |-> result, dependencies |-> dependencies ]

\* (mutant) the emitter leaves the resources out of the dependencies
FileEmitter_BuilderOnly(f) ==
  IF f \notin ProgramFiles(mode)
    THEN [ emits |-> FALSE, result |-> EmitResult(f, "undefined", {}),
           required |-> requiredFilesToEmit, recorded |-> successfulEmits ]
    ELSE [ emits |-> TRUE,
           result |-> EmitResult(f, "emitted",
                        { externalizePath(platform, d) :
                            d \in AllDependencies(f, imports) }),
           required |-> IF mode = "aot" THEN requiredFilesToEmit \ {f}
                        ELSE requiredFilesToEmit,
           recorded |-> IF mode = "aot" THEN successfulEmits \cup {f}
                        ELSE successfulEmits ]

\* (mutant) onAfterEmit clears requiredFilesToEmit
FileEmitter_ClearsRequired(f) ==
  IF f \notin ProgramFiles(mode)
    THEN [ emits |-> FALSE, result |-> EmitResult(f, "undefined", {}),
           required |-> requiredFilesToEmit, recorded |-> successfulEmits ]
    ELSE [ emits |-> TRUE,
           result |-> EmitResult(f, "emitted", EmitDependencies(f)),
           required |-> IF mode = "aot" THEN {} ELSE requiredFilesToEmit,
           recorded |-> IF mode = "aot" THEN successfulEmits \cup {f}
                        ELSE successfulEmits ]

\* the emitter made by createFileEmitter, called for f
\*   emits     program.emit runs
\*   result    what the call settles with
\*   required  requiredFilesToEmit after onAfterEmit (passed in AOT only)
\*   recorded  the files recordSuccessfulEmit was called for, likewise
FileEmitter(f) ==
  IF f \notin ProgramFiles(mode)
    THEN [ emits |-> FALSE, result |-> EmitResult(f, "undefined", {}),
           required |-> requiredFilesToEmit, recorded |-> successfulEmits ]
    ELSE [ emits |-> TRUE,
           result |-> EmitResult(f, "emitted", EmitDependencies(f)),
           required |-> IF mode = "aot" THEN requiredFilesToEmit \ {f}
                        ELSE requiredFilesToEmit,
           recorded |-> IF mode = "aot" THEN successfulEmits \cup {f}
                        ELSE successfulEmits ]

\* the loader of the bundler calls the file emitter of the compilation,
\* which awaits pendingAnalysis
RequestEmit(f) ==
  /\ pc = "building"
  /\ f \notin requested
  /\ pending' = pending \cup {f}
  /\ requested' = requested \cup {f}
  /\ UNCHANGED loaderVars
  /\ UNCHANGED << cycleVars, requiredFilesToEmit, previousUnused, pc, analysis,
                  modules, visited, rebuilding, emitted, successfulEmits, lastEmit, warnings, warnedInRun, requiredBefore >>
  /\ UNCHANGED taskVars
  /\ UNCHANGED otherVars

\* (mutant) the analysis emits the required files when it is done
ServeEmit_Eager(f) ==
  /\ pc = "building" /\ analysis = "done"
  /\ f \in pending
  /\ pending' = pending \ {f}
  /\ emitted' = emitted \cup requiredFilesToEmit
  /\ successfulEmits' = FileEmitter(f).recorded
  /\ lastEmit' = Some(FileEmitter(f).result)
  /\ requiredFilesToEmit' = FileEmitter(f).required
  /\ UNCHANGED loaderVars
  /\ UNCHANGED << cycleVars, previousUnused, pc, analysis, modules, visited, rebuilding,
                  requested, warnings, warnedInRun, requiredBefore >>
  /\ UNCHANGED taskVars
  /\ UNCHANGED otherVars

\* (mutant) the file emitter does not await pendingAnalysis
ServeEmit_NoAwait(f) ==
  /\ pc = "building"
  /\ f \in pending
  /\ pending' = pending \ {f}
  /\ emitted' = IF FileEmitter(f).emits THEN emitted \cup {f} ELSE emitted
  /\ successfulEmits' = FileEmitter(f).recorded
  /\ lastEmit' = Some(FileEmitter(f).result)
  /\ requiredFilesToEmit' = FileEmitter(f).required
  /\ UNCHANGED loaderVars
  /\ UNCHANGED << cycleVars, previousUnused, pc, analysis, modules, visited, rebuilding,
                  requested, warnings, warnedInRun, requiredBefore >>
  /\ UNCHANGED taskVars
  /\ UNCHANGED otherVars

\* a pending call of the file emitter goes on after the analysis
ServeEmit(f) ==
  /\ pc = "building" /\ analysis = "done"
  /\ f \in pending
  /\ pending' = pending \ {f}
  /\ emitted' = IF FileEmitter(f).emits THEN emitted \cup {f} ELSE emitted
  /\ successfulEmits' = FileEmitter(f).recorded
  /\ lastEmit' = Some(FileEmitter(f).result)
  /\ requiredFilesToEmit' = FileEmitter(f).required
  /\ UNCHANGED loaderVars
  /\ UNCHANGED << cycleVars, previousUnused, pc, analysis, modules, visited, rebuilding,
                  requested, warnings, warnedInRun, requiredBefore >>
  /\ UNCHANGED taskVars
  /\ UNCHANGED otherVars

\* a pending call of the file emitter rejects with the failed analysis;
\* the bundler records the failed module build
RejectEmit(f) ==
  /\ pc = "building" /\ analysis \in AnalysisErrors
  /\ f \in pending
  /\ pending' = pending \ {f}
  /\ lastEmit' = Some(EmitResult(f, analysis, {}))
  /\ parentErrors' = parentErrors \cup {f}
  /\ UNCHANGED << platform, parentCompilation, changedFiles, fileDependencies,
                  reverseDependencies, cachedSources, cachedEvaluatedSources,
                  lastGet, failedNow, failedEarlier, evaluations,
                  modifiedResources >>
  /\ UNCHANGED << cycleVars, requiredFilesToEmit, previousUnused, pc, analysis,
                  modules, visited, rebuilding, requested, emitted, successfulEmits, warnings, warnedInRun, requiredBefore >>
  /\ UNCHANGED taskVars
  /\ UNCHANGED otherVars

\* the bundler gives the compilation up before finishModules (a fatal error
\* of the make phase)
CompilationAborts ==
  /\ pc = "building" /\ analysis # "pending"
  /\ pending = {}
  /\ pc' = "aborted"
  /\ UNCHANGED loaderVars
  /\ UNCHANGED << cycleVars, requiredFilesToEmit, previousUnused, analysis,
                  modules, visited, rebuilding, pending, requested, emitted, successfulEmits, lastEmit,
                  warnings, warnedInRun, requiredBefore >>
  /\ UNCHANGED taskVars
  /\ UNCHANGED otherVars

\* finishModules begins: the bundler has built every module it was asked
\* for, so every call of the file emitter has settled
\*   mods  the source files among the resources of the modules
FinishModulesStart(mods) ==
  /\ pc = "building" /\ analysis # "pending"
  /\ pending = {}
  /\ (requested \cap ProgramFiles(mode)) \subseteq mods
  /\ pc' = "finishing"
  /\ modules' = mods
  /\ visited' = {}
  /\ rebuilding' = {}
  /\ UNCHANGED loaderVars
  /\ UNCHANGED << cycleVars, requiredFilesToEmit, previousUnused, analysis,
                  pending, requested, emitted, successfulEmits, lastEmit, warnings,
                  warnedInRun, requiredBefore >>
  /\ UNCHANGED taskVars
  /\ UNCHANGED otherVars

\* (mutant) the loop calls rebuild for the next file without awaiting the
\* one before
LoopReady_NoAwait == TRUE

\* the rebuild loop of finishModules awaits each rebuild: it goes on to the
\* next required file once the rebuild before has called back
LoopReady == rebuilding = {}

\* one turn of the rebuild loop of finishModules: rebuild(requiredFile).  A
\* required file without a module resolves at once; the module of another
\* is handed to compilation.rebuildModule.
Rebuild(requiredFile) ==
  /\ pc = "finishing"
  /\ LoopReady
  /\ requiredFile \in requiredFilesToEmit \ visited
  /\ visited' = visited \cup {requiredFile}
  /\ rebuilding' = IF requiredFile \in modules
                     THEN rebuilding \cup {requiredFile}
                     ELSE rebuilding
  /\ UNCHANGED loaderVars
  /\ UNCHANGED << cycleVars, requiredFilesToEmit, previousUnused, pc, analysis,
                  modules, pending, requested, emitted, successfulEmits,
                  lastEmit, warnings, warnedInRun, requiredBefore >>
  /\ UNCHANGED taskVars
  /\ UNCHANGED otherVars

\* compilation.rebuildModule has built the module, which called the file
\* emitter for it (a rejected emitter is a failed module build), and calls
\* back
RebuildModuleDone(requiredFile) ==
  /\ pc = "finishing"
  /\ requiredFile \in rebuilding
  /\ rebuilding' = rebuilding \ {requiredFile}
  /\ requested' = requested \cup {requiredFile}
  /\ IF analysis = "done"
       THEN /\ emitted' = IF FileEmitter(requiredFile).emits
                            THEN emitted \cup {requiredFile}
                            ELSE emitted
            /\ successfulEmits' = FileEmitter(requiredFile).recorded
            /\ lastEmit' = Some(FileEmitter(requiredFile).result)
            /\ requiredFilesToEmit' = FileEmitter(requiredFile).required
            /\ UNCHANGED parentErrors
       ELSE /\ lastEmit' = Some(EmitResult(requiredFile, analysis, {}))
            /\ parentErrors' = parentErrors \cup {requiredFile}
            /\ UNCHANGED << requiredFilesToEmit, emitted, successfulEmits >>
  /\ UNCHANGED << platform, parentCompilation, changedFiles, fileDependencies,
                  reverseDependencies, cachedSources, cachedEvaluatedSources,
                  lastGet, failedNow, failedEarlier, evaluations,
                  modifiedResources >>
  /\ UNCHANGED << cycleVars, previousUnused, pc, analysis, modules, visited,
                  pending, warnings, warnedInRun, requiredBefore >>
  /\ UNCHANGED taskVars
  /\ UNCHANGED otherVars

\* currentUnused of finishModules: the program files that are no
\* declaration files, less every dependency of a module of the program
CurrentUnused ==
  { f \in allProgramFiles(mode) : ~IsDeclarationFile(f) }
    \ UNION { AllDependencies(m, imports) : m \in modules \cap ProgramFiles(mode) }

\* (mutant) every unused file is warned about, reported before or not
NewlyUnused_All(currentUnused) == currentUnused

\* the files the warning loop of finishModules calls addWarning for
NewlyUnused(currentUnused) ==
  { unused \in currentUnused :
      ~(IsSome(previousUnused) /\ unused \in TheValue(previousUnused)) }

\* (mutant) the program is analysed for unused files in every compilation
SkipsUnusedAnalysis_Never == FALSE

\* finishModules returns before the analysis for unused files when the
\* compilation has errors
SkipsUnusedAnalysis == parentErrors # {}

\* finishModules ends: the required files are cleared and, unless the
\* compilation has errors, the program is analysed for unused files
FinishModulesEnd ==
  /\ pc = "finishing"
  /\ requiredFilesToEmit \subseteq visited
  /\ rebuilding = {}
  /\ requiredFilesToEmit' = {}
  /\ pc' = "done"
  /\ IF SkipsUnusedAnalysis
       THEN UNCHANGED << previousUnused, warnings, warnedInRun >>
       ELSE /\ warnings' = warnings \cup NewlyUnused(CurrentUnused)
            /\ previousUnused' = Some(CurrentUnused)
            /\ warnedInRun' =
                 [ f \in DOMAIN warnedInRun |->
                     IF f \notin CurrentUnused THEN 0
                     ELSE IF f \in NewlyUnused(CurrentUnused)
                       THEN warnedInRun[f] + 1
                     ELSE warnedInRun[f] ]
  /\ modules' = {}
  /\ visited' = {}
  /\ rebuilding' = {}
  /\ UNCHANGED loaderVars
  /\ UNCHANGED << cycleVars, analysis, requiredBefore, pending, requested,
                  emitted, successfulEmits, lastEmit >>
  /\ UNCHANGED taskVars
  /\ UNCHANGED otherVars

\* the clock goes on
Tick ==
  /\ now < MaxTime
  /\ now' = now + 1
  /\ UNCHANGED loaderVars
  /\ UNCHANGED << mode, compilerWatchMode, watchMode, sourceFileCache, hostCache,
     oldBuilder, oldProgram,
                  buildTimestamp, builder, ngtscNextProgram,
                  requiredFilesToEmit, previousUnused, pc, analysis, imports,
                  safeToSkipEmit, requiredBefore, modules, visited, rebuilding, pending, requested, emitted, successfulEmits, lastEmit,
                  warnings, warnedInRun, fileTimestamps >>
  /\ UNCHANGED taskVars
  /\ UNCHANGED otherVars

\* a source file is written: its timestamp is the clock's
Touch(f) ==
  /\ fileTimestamps[f] # now
  /\ fileTimestamps' = [fileTimestamps EXCEPT ![f] = now]
  /\ UNCHANGED loaderVars
  /\ UNCHANGED << mode, compilerWatchMode, watchMode, sourceFileCache, hostCache,
     oldBuilder, oldProgram,
                  buildTimestamp, builder, ngtscNextProgram,
                  requiredFilesToEmit, previousUnused, pc, analysis, imports,
                  safeToSkipEmit, requiredBefore, modules, visited, rebuilding, pending, requested, emitted, successfulEmits, lastEmit,
                  warnings, warnedInRun, now >>
  /\ UNCHANGED taskVars
  /\ UNCHANGED otherVars

(***************************************************************************)
(* TaskScheduler of the schematics engine, after spec.md section 4.4: a    *)
(* task is scheduled with the ids of the tasks it depends on, finalize()   *)
(* sorts the scheduled tasks topologically, the tasks are then executed in *)
(* that order.                                                             *)
(***************************************************************************)
TaskIds == 1..MaxTasks

InitTasks ==
  /\ taskQueue = EmptyMap
  /\ finalized = None
  /\ executed = << >>

\* the tasks placed in an order
Placed(order) == { order[i] : i \in 1..Len(order) }

\* (mutant) the tasks in the order they were scheduled in
TopologicalSort_ScheduleOrder(queue, order) ==
  [ error |-> "none", order |-> [i \in 1..Cardinality(DOMAIN queue) |-> i] ]

\* the topological sort of finalize(): the next task is one whose
\* dependencies are all placed; when tasks are left and none is ready the
\* dependencies hold a cycle
RECURSIVE TopologicalSort(_, _)
TopologicalSort(queue, order) ==
  LET ready == { t \in DOMAIN queue \ Placed(order) : queue[t] \subseteq Placed(order) }
  IN IF DOMAIN queue \subseteq Placed(order)
       THEN [ error |-> "none", order |-> order ]
     ELSE IF ready = {}
       THEN [ error |-> "CyclicTaskDependencyError", order |-> << >> ]
     ELSE TopologicalSort(queue,
            Append(order, CHOOSE t \in ready : \A u \in ready : t <= u))

\* schedule(taskConfig): the task gets the next id; its dependencies are
\* ids, of tasks scheduled before or after it
schedule(dependencies) ==
  /\ ~IsSome(finalized)
  /\ Cardinality(DOMAIN taskQueue) < MaxTasks
  /\ taskQueue' = MapSet(taskQueue, Cardinality(DOMAIN taskQueue) + 1, dependencies)
  /\ UNCHANGED << finalized, executed >>
  /\ UNCHANGED << loaderVars, pluginVars >>
  /\ UNCHANGED otherVars

\* finalize(), once every dependency names a scheduled task
finalize ==
  /\ ~IsSome(finalized)
  /\ \A t \in DOMAIN taskQueue : taskQueue[t] \subseteq DOMAIN taskQueue
  /\ finalized' = Some(TopologicalSort(taskQueue, << >>))
  /\ UNCHANGED << taskQueue, executed >>
  /\ UNCHANGED << loaderVars, pluginVars >>
  /\ UNCHANGED otherVars

\* the next task of the order finalize() produced is executed
ExecuteTask ==
  /\ IsSome(finalized)
  /\ TheValue(finalized).error = "none"
  /\ Len(executed) < Len(TheValue(finalized).order)
  /\ executed' = Append(executed, TheValue(finalized).order[Len(executed) + 1])
  /\ UNCHANGED << taskQueue, finalized >>
  /\ UNCHANGED << loaderVars, pluginVars >>
  /\ UNCHANGED otherVars

(***************************************************************************)
(* chain(rules) of the schematics engine, after spec.md sections 4.3 and   *)
(* 5 and property P3.  A rule is synchronous or asynchronous and succeeds  *)
(* or fails.  A rule writes its marker to the Tree when it is called; an   *)
(* asynchronous rule hands out a Tree at once and writes its marker a      *)
(* second time before it hands out its final Tree, or fails instead.       *)
(***************************************************************************)
RuleKinds == [ async : BOOLEAN, fails : BOOLEAN ]

\* the lists chain() can be handed
RuleLists == UNION { [1..n -> RuleKinds] : n \in 0..MaxRules }

InitChain ==
  /\ chainRules \in RuleLists
  /\ chainNext = 1
  /\ chainRunning = {}
  /\ chainTree = << >>
  /\ chainOutcome = [ state |-> "pending", rule |-> 0 ]
  /\ ruleInput = EmptyMap
  /\ ruleOutput = EmptyMap

\* no chain is run
ChainIdle == chainRules = << >> /\ InitChain

\* (mutant) the next rule is called as soon as the one before it was called
RuleReady_NoWait == chainOutcome.state = "pending"

\* the next rule is called once every rule before it has produced its final
\* Tree and none has failed
RuleReady == chainOutcome.state = "pending" /\ chainRunning = {}

\* chain calls its next rule with the Tree; a synchronous rule has run when
\* the call returns
CallRule ==
  LET i == chainNext
      rule == chainRules[i]
      written == Append(chainTree, i)
  IN /\ i <= Len(chainRules)
     /\ RuleReady
     /\ chainNext' = i + 1
     /\ ruleInput' = MapSet(ruleInput, i, chainTree)
     /\ IF rule.async
          THEN /\ chainRunning' = chainRunning \cup {i}
               /\ chainTree' = written
               /\ UNCHANGED << chainOutcome, ruleOutput >>
        ELSE IF rule.fails
          THEN /\ chainOutcome' = [ state |-> "failed", rule |-> i ]
               /\ UNCHANGED << chainRunning, chainTree, ruleOutput >>
        ELSE /\ chainTree' = written
             /\ ruleOutput' = MapSet(ruleOutput, i, written)
             /\ UNCHANGED << chainRunning, chainOutcome >>
     /\ UNCHANGED chainRules
     /\ UNCHANGED << loaderVars, pluginVars, taskVars, utilVars, toolVars >>

\* an asynchronous rule settles: it fails, or it produces its final Tree
RuleSettles(i) ==
  LET written == Append(chainTree, i)
  IN /\ i \in chainRunning
     /\ chainRunning' = chainRunning \ {i}
     /\ IF chainRules[i].fails
          THEN /\ chainOutcome' =
                    IF chainOutcome.state = "pending"
                      THEN [ state |-> "failed", rule |-> i ]
                      ELSE chainOutcome
               /\ UNCHANGED << chainTree, ruleOutput >>
        ELSE /\ chainTree' = written
             /\ ruleOutput' = MapSet(ruleOutput, i, written)
             /\ UNCHANGED chainOutcome
     /\ UNCHANGED << chainRules, chainNext, ruleInput >>
     /\ UNCHANGED << loaderVars, pluginVars, taskVars, utilVars, toolVars >>

\* every rule has produced its final Tree: so has the chain
ChainCompletes ==
  /\ chainOutcome.state = "pending"
  /\ chainNext > Len(chainRules)
  /\ chainRunning = {}
  /\ chainOutcome' = [ state |-> "done", rule |-> 0 ]
  /\ UNCHANGED << chainRules, chainNext, chainRunning, chainTree, ruleInput,
                  ruleOutput >>
  /\ UNCHANGED << loaderVars, pluginVars, taskVars, utilVars, toolVars >>

(***************************************************************************)
(* getOutputHashFormat (part_001 22-41).  A hash suffix is the template    *)
(* `.[<hash>:<length>]`, the empty string, or undefined (a property the    *)
(* returned object does not have).                                         *)
(***************************************************************************)
DefaultHashLength == 20

NoSuffix == [ hash |-> "", length |-> 0 ]
UndefinedSuffix == [ hash |-> "undefined", length |-> 0 ]
Suffix(hash, length) == [ hash |-> hash, length |-> length ]

\* the properties Object.prototype gives every object literal
ObjectPrototypeKeys == { "constructor", "toString" }

\* what the option can be: the four formats, the empty string, a word that
\* names nothing, and names every object has a property for
HashOptions == { "none", "media", "bundles", "all", "", "foo" } \cup ObjectPrototypeKeys

HashLengths == { None } \cup { Some(n) : n \in 1..MaxHashLength }

\* the object literal of lines 23-38
hashFormats(length) ==
  [ none    |-> [ chunk |-> NoSuffix, extract |-> NoSuffix, file |-> NoSuffix,
                  script |-> NoSuffix ],
    media   |-> [ chunk |-> NoSuffix, extract |-> NoSuffix,
                  file |-> Suffix("hash", length), script |-> NoSuffix ],
    bundles |-> [ chunk |-> Suffix("chunkhash", length),
                  extract |-> Suffix("contenthash", length),
                  file |-> NoSuffix, script |-> Suffix("hash", length) ],
    all     |-> [ chunk |-> Suffix("chunkhash", length),
                  extract |-> Suffix("contenthash", length),
                  file |-> Suffix("hash", length),
                  script |-> Suffix("hash", length) ] ]

\* a member of Object.prototype read as a HashFormat: a function, which is
\* truthy and has none of the four properties
PrototypeMember ==
  [ chunk |-> UndefinedSuffix, extract |-> UndefinedSuffix,
    file |-> UndefinedSuffix, script |-> UndefinedSuffix ]

\* hashFormats[option]: an own property, an inherited one, or undefined
PropertyOf(object, option) ==
  IF option \in DOMAIN object THEN Some(object[option])
  ELSE IF option \in ObjectPrototypeKeys THEN Some(PrototypeMember)
  ELSE None

getOutputHashFormat(option, length) ==
  LET len == IF IsSome(length) THEN TheValue(length) ELSE DefaultHashLength
      found == PropertyOf(hashFormats(len), option)
  IN IF IsSome(found) THEN TheValue(found) ELSE hashFormats(len)["none"]

\* the call getOutputHashFormat(hashOption, hashLength)
GetOutputHashFormat ==
  /\ ~IsSome(hashFormat)
  /\ hashFormat' = Some(getOutputHashFormat(hashOption, hashLength))
  /\ UNCHANGED << hashOption, hashLength >>
  /\ UNCHANGED << extraEntryPoints, defaultBundleName, normalizedEntryPoints >>
  /\ UNCHANGED << loaderVars, pluginVars, taskVars, chainVars, toolVars >>

(***************************************************************************)
(* normalizeExtraEntryPoints (part_001 45-69).  An input is a path; an     *)
(* entry is a string or an object with an input and, optionally, a         *)
(* bundleName and an inject flag.                                          *)
(***************************************************************************)
\* the empty string
EmptyName == Path("", "", "")

\* the extensions /\.(js|css|scss|sass|less|styl)$/i matches, lower case
StrippedExtensions == { "js", "css", "scss", "sass", "less", "styl" }

\* the extensions of the model, each with its lower case
LowerCase(ext) == IF ext = "SCSS" THEN "scss" ELSE ext

EntryInputs == { Path("/", "lazy", "SCSS"), Path("/", "lib", "ts") }

BundleNames == { EmptyName, Path("", "renamed", "") }

EntryPoints ==
  [ kind : {"string"}, input : EntryInputs, bundleName : {None}, inject : {None} ]
  \cup
  [ kind : {"object"}, input : EntryInputs,
    bundleName : {None} \cup { Some(b) : b \in BundleNames },
    inject : {None, Some(TRUE), Some(FALSE)} ]

EntryPointLists == UNION { [1..n -> EntryPoints] : n \in 0..MaxEntries }

DefaultBundleNames == { Path("", "styles", "") }

\* input.replace(/\.(js|css|scss|sass|less|styl)$/i, '')
StripExtension(input) ==
  IF LowerCase(input.ext) \in StrippedExtensions
    THEN [input EXCEPT !.ext = ""]
    ELSE input

\* basename(normalize(path)): the last segment of the path
basename(path) == [path EXCEPT !.sep = ""]

\* (mutant) a lazy entry goes to the default bundle like an injected one
BundleNameOf_Default(entry, inject, default) ==
  IF IsSome(entry.bundleName) /\ TheValue(entry.bundleName) # EmptyName
    THEN TheValue(entry.bundleName)
    ELSE default

\* lines 55-65: the bundle name of an object entry
BundleNameOf(entry, inject, default) ==
  IF IsSome(entry.bundleName) /\ TheValue(entry.bundleName) # EmptyName
    THEN TheValue(entry.bundleName)
  ELSE IF ~inject
    THEN basename(StripExtension(entry.input))
  ELSE default

NormalizeEntry(entry, default) ==
  IF entry.kind = "string"
    THEN [ input |-> entry.input, inject |-> TRUE, bundleName |-> default ]
    ELSE LET inject == IF IsSome(entry.inject) THEN TheValue(entry.inject) ELSE TRUE
         IN [ input |-> entry.input, inject |-> inject,
              bundleName |-> BundleNameOf(entry, inject, default) ]

normalizeExtraEntryPoints(entries, default) ==
  [ i \in 1..Len(entries) |-> NormalizeEntry(entries[i], default) ]

\* the call normalizeExtraEntryPoints(extraEntryPoints, defaultBundleName)
NormalizeExtraEntryPoints ==
  /\ ~IsSome(normalizedEntryPoints)
  /\ normalizedEntryPoints' =
       Some(normalizeExtraEntryPoints(extraEntryPoints, defaultBundleName))
  /\ UNCHANGED << extraEntryPoints, defaultBundleName >>
  /\ UNCHANGED << hashOption, hashLength, hashFormat >>
  /\ UNCHANGED << loaderVars, pluginVars, taskVars, chainVars, toolVars >>

\* the arguments of the two calls, neither made yet
InitUtils ==
  /\ hashOption \in HashOptions
  /\ hashLength \in HashLengths
  /\ hashFormat = None
  /\ extraEntryPoints \in EntryPointLists
  /\ defaultBundleName \in DefaultBundleNames
  /\ normalizedEntryPoints = None

\* no call is made
UtilsIdle ==
  /\ hashOption = "none"
  /\ hashLength = None
  /\ extraEntryPoints = << >>
  /\ InitUtils

(***************************************************************************)
(* SchematicTestRunner (src/unnamed/part_000).  A run is the observable    *)
(* runSchematicAsync returns: the schematic is executed when the           *)
(* observable is subscribed to (spec.md 4.3) and adds its tasks through    *)
(* the context while it runs; the engine host records each added task.     *)
(***************************************************************************)
Runs == 1..MaxRuns

\* the n-th task configuration the schematic of run r adds
TaskOf(r, n) == [run |-> r, n |-> n]

\* an element a caller pushes on an array it was returned
ForeignTask == [run |-> 0, n |-> 0]

InitRunner ==
  /\ runsCreated = 0
  /\ runState = [r \in Runs |-> "none"]
  /\ runExternal = [r \in Runs |-> FALSE]
  /\ engineTasks = << >>
  /\ scheduledTasks = [r \in Runs |-> << >>]
  /\ returnedTasks = None

\* the test runner left alone
RunnerIdle == InitRunner

\* _engineHost.clearTasks(): the recorded tasks after it
ClearTasks == << >>

\* the body shared by runSchematicAsync and runExternalSchematicAsync: the
\* schematic is created, the recorded tasks are cleared, and the observable
\* of schematic.call is returned, not subscribed to
CreateRun(external) ==
  /\ runsCreated < MaxRuns
  /\ runsCreated' = runsCreated + 1
  /\ runState' = [runState EXCEPT ![runsCreated + 1] = "created"]
  /\ runExternal' = [runExternal EXCEPT ![runsCreated + 1] = external]
  /\ engineTasks' = ClearTasks
  /\ UNCHANGED << scheduledTasks, returnedTasks >>
  /\ UNCHANGED runnerFrame

runSchematicAsync == CreateRun(FALSE)

runExternalSchematicAsync == CreateRun(TRUE)

\* the caller subscribes to the observable of run r: the schematic starts
SubscribeRun(r) ==
  /\ runState[r] = "created"
  /\ runState' = [runState EXCEPT ![r] = "running"]
  /\ UNCHANGED << runsCreated, runExternal, engineTasks, scheduledTasks,
                  returnedTasks >>
  /\ UNCHANGED runnerFrame

\* the schematic of run r calls context.addTask: the engine host pushes the
\* task configuration on its recorded tasks
AddTask(r) ==
  /\ runState[r] = "running"
  /\ Len(scheduledTasks[r]) < MaxRunTasks
  /\ LET task == TaskOf(r, Len(scheduledTasks[r]) + 1)
     IN /\ engineTasks' = Append(engineTasks, task)
        /\ scheduledTasks' = [scheduledTasks EXCEPT ![r] = Append(@, task)]
  /\ UNCHANGED << runsCreated, runState, runExternal, returnedTasks >>
  /\ UNCHANGED runnerFrame

\* the observable of run r emits its tree and completes
CompleteRun(r) ==
  /\ runState[r] = "running"
  /\ runState' = [runState EXCEPT ![r] = "done"]
  /\ UNCHANGED << runsCreated, runExternal, engineTasks, scheduledTasks,
                  returnedTasks >>
  /\ UNCHANGED runnerFrame

\* get tasks(): a new array with the elements of the recorded tasks
TasksGetter == engineTasks

\* the caller reads runner.tasks
ReadTasks ==
  /\ returnedTasks' = Some(TasksGetter)
  /\ UNCHANGED << runsCreated, runState, runExternal, engineTasks,
                  scheduledTasks >>
  /\ UNCHANGED runnerFrame

\* the caller pushes an element on the array it was returned, an array of
\* its own: the engine host's array is another one
MutateReturned ==
  /\ IsSome(returnedTasks)
  /\ Len(TheValue(returnedTasks)) < MaxRuns * MaxRunTasks
  /\ returnedTasks' = Some(Append(TheValue(returnedTasks), ForeignTask))
  /\ UNCHANGED << runsCreated, runState, runExternal, engineTasks,
                  scheduledTasks >>
  /\ UNCHANGED runnerFrame

(***************************************************************************)
(* normalizeOptimization (utils/normalize-optimization.ts, in              *)
(* src/.../utils/normalize-builder-schema.ts 87-113).  A JavaScript value  *)
(* is a record with its kind; a property that may be left out is None or   *)
(* Some(value).                                                            *)
(***************************************************************************)
Undefined == [kind |-> "undefined"]
Bool(b) == [kind |-> "boolean", value |-> b]

\* !!value, for undefined and the booleans
ToBoolean(v) == v.kind = "boolean" /\ v.value

\* a StylesClass and a FontsClass object
StylesObject(minify, inlineCritical) ==
  [kind |-> "object", minify |-> minify, inlineCritical |-> inlineCritical]
FontsObject(inline) == [kind |-> "object", inline |-> inline]

\* an OptimizationClass object
OptimizationObject(scripts, styles, fonts) ==
  [kind |-> "object", scripts |-> scripts, styles |-> styles, fonts |-> fonts]

OptionalBooleans == {None, Some(TRUE), Some(FALSE)}
BooleanUnions == {Undefined, Bool(TRUE), Bool(FALSE)}
StylesUnions ==
  BooleanUnions \cup
  { StylesObject(m, c) : m \in OptionalBooleans, c \in OptionalBooleans }
FontsUnions == BooleanUnions \cup { FontsObject(i) : i \in OptionalBooleans }

\* OptimizationUnion: undefined, a boolean or an object
OptimizationUnions ==
  BooleanUnions \cup
  { OptimizationObject(s, st, f) :
      s \in BooleanUnions, st \in StylesUnions, f \in FontsUnions }

\* normalizeOptimization(optimization), the parameter defaulting to false
normalizeOptimization(optimization) ==
  LET o == IF optimization.kind = "undefined" THEN Bool(FALSE)
           ELSE optimization
  IN IF o.kind = "object"
       THEN OptimizationObject(
              Bool(ToBoolean(o.scripts)),
              IF o.styles.kind = "object" THEN o.styles
              ELSE StylesObject(Some(ToBoolean(o.styles)), Some(FALSE)),
              IF o.fonts.kind = "object" THEN o.fonts
              ELSE FontsObject(Some(ToBoolean(o.fonts))))
     ELSE OptimizationObject(o, StylesObject(Some(o.value), Some(FALSE)),
                             FontsObject(Some(o.value)))

\* an optimization option, no call made yet
InitOptimization ==
  /\ optimizationInput \in OptimizationUnions
  /\ normalizedOptimization = None
  /\ renormalizedOptimization = None

\* no call is made
OptimizationIdle ==
  /\ optimizationInput = Undefined
  /\ normalizedOptimization = None
  /\ renormalizedOptimization = None

\* the call normalizeOptimization(optimizationInput)
NormalizeOptimization ==
  /\ ~IsSome(normalizedOptimization)
  /\ normalizedOptimization' = Some(normalizeOptimization(optimizationInput))
  /\ UNCHANGED << optimizationInput, renormalizedOptimization >>
  /\ UNCHANGED optimizationFrame

\* the call of normalizeOptimization on what the first call returned
NormalizeNormalized ==
  /\ IsSome(normalizedOptimization)
  /\ ~IsSome(renormalizedOptimization)
  /\ renormalizedOptimization' =
       Some(normalizeOptimization(TheValue(normalizedOptimization)))
  /\ UNCHANGED << optimizationInput, normalizedOptimization >>
  /\ UNCHANGED optimizationFrame

(***************************************************************************)
(* _appShellBuilder (app-shell/index.ts, in                                *)
(* src/.../dev-server/inline-critical-css-optimization_spec.ts 209-260).   *)
(* The result of a target is kept as the target and how its build ended,   *)
(* the result of the catch block as "error" and what threw.  stop() of a   *)
(* run resolves once the run is stopped.                                   *)
(***************************************************************************)
BuildResult(target, build) == [target |-> target, build |-> build]
ErrorResult(thrower) == [target |-> "error", build |-> thrower]
Rejection(thrower) == [target |-> "rejection", build |-> thrower]

\* browserOptions.optimization of the browser target
ShellOptimizations ==
  { Undefined, Bool(TRUE),
    OptimizationObject(Undefined, StylesObject(None, Some(TRUE)), Undefined),
    OptimizationObject(Bool(TRUE), Bool(TRUE), Bool(FALSE)) }

\* how the build of the browser target and of the server target can end:
\* success true, success false, (browser) success without baseOutputPath,
\* or the result promise rejected
BrowserOutcomes == {"success", "failed", "noPath", "rejected"}
ServerOutcomes == {"success", "failed", "rejected"}

InitShell ==
  /\ shellPc = "start"
  /\ browserOptimization \in ShellOptimizations
  /\ browserSchedule = None
  /\ serverSchedule = None
  /\ browserBuild = "unscheduled"
  /\ serverBuild = "unscheduled"
  /\ spinner = "none"
  /\ rendered = FALSE
  /\ browserStop = "none"
  /\ serverStop = "none"
  /\ shellOutcome = None
  /\ shellResult = None

\* the builder is not run
ShellIdle ==
  /\ browserOptimization = Undefined
  /\ InitShell

\* lines 220-227: the overrides the browser target is scheduled with
BrowserOverrides ==
  LET optimization == normalizeOptimization(browserOptimization)
  IN [ watch |-> FALSE, serviceWorker |-> FALSE,
       optimization |->
         [optimization EXCEPT !.styles.inlineCritical = Some(FALSE)] ]

\* await context.scheduleTarget(browserTarget, ...)
ScheduleBrowserTarget ==
  /\ shellPc = "start"
  /\ browserSchedule' = Some(BrowserOverrides)
  /\ browserBuild' = "pending"
  /\ shellPc' = "browserScheduled"
  /\ UNCHANGED << browserOptimization, serverSchedule, serverBuild, spinner,
                  rendered, browserStop, serverStop, shellOutcome,
                  shellResult >>
  /\ UNCHANGED shellFrame

\* await context.scheduleTarget(serverTarget, ...): the run, or a rejection
\* that the builder passes on
ScheduleServerTarget(scheduled) ==
  /\ shellPc = "browserScheduled"
  /\ IF scheduled
       THEN /\ serverSchedule' = Some([watch |-> FALSE])
            /\ serverBuild' = "pending"
            /\ shellPc' = "awaiting"
            /\ UNCHANGED shellResult
       ELSE /\ shellResult' = Some(Rejection("scheduleTarget"))
            /\ shellPc' = "rejected"
            /\ UNCHANGED << serverSchedule, serverBuild >>
  /\ UNCHANGED << browserOptimization, browserSchedule, browserBuild, spinner,
                  rendered, browserStop, serverStop, shellOutcome >>
  /\ UNCHANGED shellFrame

\* the build of the browser target ends
BrowserBuildSettles(outcome) ==
  /\ browserBuild = "pending"
  /\ browserStop # "done"
  /\ browserBuild' = outcome
  /\ UNCHANGED << shellPc, browserOptimization, browserSchedule,
                  serverSchedule, serverBuild, spinner, rendered, browserStop,
                  serverStop, shellOutcome, shellResult >>
  /\ UNCHANGED shellFrame

\* the build of the server target ends
ServerBuildSettles(outcome) ==
  /\ serverBuild = "pending"
  /\ serverStop # "done"
  /\ serverBuild' = outcome
  /\ UNCHANGED << shellPc, browserOptimization, browserSchedule,
                  serverSchedule, browserBuild, spinner, rendered, browserStop,
                  serverStop, shellOutcome, shellResult >>
  /\ UNCHANGED shellFrame

\* the result promises that have rejected
RejectedBuilds ==
  (IF browserBuild = "rejected" THEN {"browser"} ELSE {}) \cup
  (IF serverBuild = "rejected" THEN {"server"} ELSE {})

\* (mutant) only success false counts as a failed browser build
BrowserFailed_SuccessOnly == browserBuild = "failed"

\* line 240: browserResult.success === false ||
\* browserResult.baseOutputPath === undefined
BrowserFailed == browserBuild \in {"failed", "noPath"}

\* lines 234-247: Promise.all of the two results settles; the catch block
\* for a rejection, else the two early returns, else the spinner starts and
\* _renderUniversal is called
AwaitBuilds ==
  /\ shellPc = "awaiting"
  /\ \/ RejectedBuilds # {}
     \/ (browserBuild # "pending" /\ serverBuild # "pending")
  /\ IF RejectedBuilds # {}
       THEN /\ \E thrower \in RejectedBuilds :
                 shellOutcome' = Some(ErrorResult(thrower))
            /\ shellPc' = "finally"
            /\ UNCHANGED << spinner, rendered >>
     ELSE IF BrowserFailed
       THEN /\ shellOutcome' = Some(BuildResult("browser", browserBuild))
            /\ shellPc' = "finally"
            /\ UNCHANGED << spinner, rendered >>
     ELSE IF serverBuild = "failed"
       THEN /\ shellOutcome' = Some(BuildResult("server", serverBuild))
            /\ shellPc' = "finally"
            /\ UNCHANGED << spinner, rendered >>
     ELSE /\ spinner' = "started"
          /\ rendered' = TRUE
          /\ shellPc' = "rendering"
          /\ UNCHANGED shellOutcome
  /\ UNCHANGED << browserOptimization, browserSchedule, serverSchedule,
                  browserBuild, serverBuild, browserStop, serverStop,
                  shellResult >>
  /\ UNCHANGED shellFrame

\* lines 248-255: _renderUniversal returns the browser result, or throws
\* into the catch block
RenderUniversal(throws) ==
  /\ shellPc = "rendering"
  /\ IF throws
       THEN /\ spinner' = "failed"
            /\ shellOutcome' = Some(ErrorResult("render"))
       ELSE /\ spinner' = "succeeded"
            /\ shellOutcome' = Some(BuildResult("browser", browserBuild))
  /\ shellPc' = "finally"
  /\ UNCHANGED << browserOptimization, browserSchedule, serverSchedule,
                  browserBuild, serverBuild, rendered, browserStop,
                  serverStop, shellResult >>
  /\ UNCHANGED shellFrame

\* line 258: the finally block calls stop() on both runs
CallStops ==
  /\ shellPc = "finally"
  /\ browserStop' = "called"
  /\ serverStop' = "called"
  /\ shellPc' = "stopping"
  /\ UNCHANGED << browserOptimization, browserSchedule, serverSchedule,
                  browserBuild, serverBuild, spinner, rendered, shellOutcome,
                  shellResult >>
  /\ UNCHANGED shellFrame

\* a run has stopped: its stop() resolves
BrowserStopCompletes ==
  /\ browserStop = "called"
  /\ browserStop' = "done"
  /\ UNCHANGED << shellPc, browserOptimization, browserSchedule,
                  serverSchedule, browserBuild, serverBuild, spinner, rendered,
                  serverStop, shellOutcome, shellResult >>
  /\ UNCHANGED shellFrame

ServerStopCompletes ==
  /\ serverStop = "called"
  /\ serverStop' = "done"
  /\ UNCHANGED << shellPc, browserOptimization, browserSchedule,
                  serverSchedule, browserBuild, serverBuild, spinner, rendered,
                  browserStop, shellOutcome, shellResult >>
  /\ UNCHANGED shellFrame

\* (mutant) the finally block does not await the stops
StopsAwaited_NoAwait == TRUE

\* line 258: await Promise.all([...stop(), ...stop()]) has resolved
StopsAwaited == browserStop = "done" /\ serverStop = "done"

\* the finally block is through: the promise of the builder resolves with
\* what try / catch came to
DeliverResult ==
  /\ shellPc = "stopping"
  /\ StopsAwaited
  /\ shellResult' = shellOutcome
  /\ shellPc' = "delivered"
  /\ UNCHANGED << browserOptimization, browserSchedule, serverSchedule,
                  browserBuild, serverBuild, spinner, rendered, browserStop,
                  serverStop, shellOutcome >>
  /\ UNCHANGED shellFrame

(***************************************************************************)
(* IndexHtmlGenerator (utils/index-file/index-html-generator.ts, in        *)
(* src/.../utils/normalize-builder-schema.ts 213-327).  An html string is  *)
(* the sequence of what was done to the index file.                        *)
(***************************************************************************)
\* the index file as readIndex and stripBom give it
IndexContent == << "index" >>

\* options.optimization: left out, or normalized options
HtmlOptimizations ==
  {None} \cup
  { Some(OptimizationObject(Bool(TRUE), StylesObject(Some(TRUE), c),
                            FontsObject(i))) :
      c \in OptionalBooleans, i \in OptionalBooleans }

\* truthiness of a property that may be left out
IsTrue(property) == property = Some(TRUE)

\* (mutant) the post transform is put before the extra plugins
PluginsOf_PostBeforeExtras(options) ==
  << "augment", "post" >>
  \o (IF IsSome(options.optimization)
         /\ IsTrue(TheValue(options.optimization).fonts.inline)
        THEN << "fonts" >> ELSE << >>)
  \o (IF IsSome(options.optimization)
         /\ IsTrue(TheValue(options.optimization).styles.inlineCritical)
        THEN << "critical" >> ELSE << >>)

\* the constructor: this.plugins
PluginsOf(options) ==
  << "augment" >>
  \o (IF IsSome(options.optimization)
         /\ IsTrue(TheValue(options.optimization).fonts.inline)
        THEN << "fonts" >> ELSE << >>)
  \o (IF IsSome(options.optimization)
         /\ IsTrue(TheValue(options.optimization).styles.inlineCritical)
        THEN << "critical" >> ELSE << >>)
  \o << "post" >>

\* what a plugin resolves with: a string, or a transform result
StringResult(content) ==
  [kind |-> "string", content |-> content, warnings |-> << >>,
   errors |-> << >>]
TransformResult(content, warned, failed) ==
  [kind |-> "result", content |-> content, warnings |-> warned,
   errors |-> failed]

\* the plugins that resolve with a string: augmentIndexHtml, and the post
\* transform
StringPlugins == {"augment", "post"}

\* what the plugin resolves with when handed html: augmentIndexHtml and the
\* post transform a string (the post transform the html itself when
\* options.postTransform is not set), the two processors a result, with a
\* warning when warned and an error when failed
PluginResult(plugin, html, options, warned, failed) ==
  CASE plugin = "augment" -> StringResult(Append(html, "augment"))
    [] plugin = "post" ->
         StringResult(IF options.postTransform THEN Append(html, "post")
                      ELSE html)
    [] OTHER ->
         TransformResult(
           Append(html, plugin),
           IF warned THEN << << plugin, "warning" >> >> ELSE << >>,
           IF failed THEN << << plugin, "error" >> >> ELSE << >>)

InitHtml ==
  /\ htmlOptions \in [optimization : HtmlOptimizations, postTransform : BOOLEAN]
  /\ htmlPlugins = None
  /\ htmlPc = "new"
  /\ htmlRunning = FALSE
  /\ htmlContent = << >>
  /\ htmlWarnings = << >>
  /\ htmlErrors = << >>
  /\ htmlCalls = << >>
  /\ htmlResults = << >>
  /\ htmlReturned = None

\* no generator is made
HtmlIdle ==
  /\ htmlOptions = [optimization |-> None, postTransform |-> FALSE]
  /\ InitHtml

\* new IndexHtmlGenerator(options)
NewIndexHtmlGenerator ==
  /\ htmlPc = "new"
  /\ htmlPlugins' = Some(PluginsOf(htmlOptions))
  /\ htmlPc' = "constructed"
  /\ UNCHANGED << htmlOptions, htmlRunning, htmlContent, htmlWarnings,
                  htmlErrors, htmlCalls, htmlResults, htmlReturned >>
  /\ UNCHANGED htmlFrame

\* process(options) up to its loop: the index file is read
ProcessStarts ==
  /\ htmlPc = "constructed"
  /\ htmlContent' = IndexContent
  /\ htmlPc' = "processing"
  /\ UNCHANGED << htmlOptions, htmlPlugins, htmlRunning, htmlWarnings,
                  htmlErrors, htmlCalls, htmlResults, htmlReturned >>
  /\ UNCHANGED htmlFrame

\* a turn of the loop calls the next plugin with the content
CallPlugin ==
  /\ htmlPc = "processing"
  /\ ~htmlRunning
  /\ Len(htmlCalls) < Len(TheValue(htmlPlugins))
  /\ htmlCalls' =
       Append(htmlCalls,
              [plugin |-> TheValue(htmlPlugins)[Len(htmlCalls) + 1],
               html |-> htmlContent])
  /\ htmlRunning' = TRUE
  /\ UNCHANGED << htmlOptions, htmlPlugins, htmlPc, htmlContent, htmlWarnings,
                  htmlErrors, htmlResults, htmlReturned >>
  /\ UNCHANGED htmlFrame

\* the awaited plugin resolves: its content becomes the content, its
\* warnings and errors are pushed
PluginSettles(warned, failed) ==
  /\ htmlPc = "processing"
  /\ htmlRunning
  /\ LET call == htmlCalls[Len(htmlCalls)]
         result == PluginResult(call.plugin, call.html, htmlOptions, warned,
                                failed)
     IN /\ call.plugin \in StringPlugins => ~warned /\ ~failed
        /\ htmlRunning' = FALSE
        /\ htmlResults' = Append(htmlResults, result)
        /\ htmlContent' = result.content
        /\ IF result.kind = "string"
             THEN UNCHANGED << htmlWarnings, htmlErrors >>
             ELSE /\ htmlWarnings' = htmlWarnings \o result.warnings
                  /\ htmlErrors' = htmlErrors \o result.errors
  /\ UNCHANGED << htmlOptions, htmlPlugins, htmlPc, htmlCalls, htmlReturned >>
  /\ UNCHANGED htmlFrame

\* the loop is through: process() returns
ProcessReturns ==
  /\ htmlPc = "processing"
  /\ ~htmlRunning
  /\ Len(htmlCalls) = Len(TheValue(htmlPlugins))
  /\ htmlReturned' = Some([content |-> htmlContent, warnings |-> htmlWarnings,
                           errors |-> htmlErrors])
  /\ htmlPc' = "returned"
  /\ UNCHANGED << htmlOptions, htmlPlugins, htmlRunning, htmlContent,
                  htmlWarnings, htmlErrors, htmlCalls, htmlResults >>
  /\ UNCHANGED htmlFrame

(***************************************************************************)
(* getCommonConfig: the global scripts (webpack/configs/common.ts, in      *)
(* src/.../webpack/configs/stats.ts 276-326).                              *)
(***************************************************************************)
\* the default bundle name of line 278
ScriptsBundleName == Path("", "scripts", "")

\* buildOptions.outputHashing of the model
ScriptsHashings == { "none", "all" }

\* lines 279-309, the callback of reduce for the entries from i on: the
\* error thrown, or none and the bundles by name
RECURSIVE ReduceScripts(_, _, _)
ReduceScripts(entries, i, prev) ==
  IF i > Len(entries) THEN [ error |-> "none", bundles |-> prev ]
  ELSE LET curr == entries[i]
           existing == { k \in 1..Len(prev) :
                           prev[k].bundleName = curr.bundleName }
       IN IF curr.input \notin scriptFiles
            THEN [ error |-> "missing", bundles |-> prev ]
          ELSE IF existing = {}
            THEN ReduceScripts(entries, i + 1,
                   Append(prev, [ bundleName |-> curr.bundleName,
                                  inject |-> curr.inject,
                                  paths |-> << curr.input >> ]))
          ELSE LET k == CHOOSE k \in existing : TRUE
               IN IF prev[k].inject /\ ~curr.inject
                    THEN [ error |-> "mixing", bundles |-> prev ]
                    ELSE ReduceScripts(entries, i + 1,
                           [prev EXCEPT ![k].paths = Append(@, curr.input)])

\* lines 313-326: the ScriptsWebpackPlugin of a bundle
ScriptsPlugin(script, format) ==
  [ name |-> script.bundleName,
    filename |-> [ base |-> basename(script.bundleName),
                   hash |-> IF script.inject THEN format.script ELSE NoSuffix,
                   ext |-> "js" ],
    scripts |-> script.paths ]

\* lines 276-326 of getCommonConfig
GlobalScripts(scripts, hashing) ==
  LET reduced == ReduceScripts(
                   normalizeExtraEntryPoints(scripts, ScriptsBundleName), 1,
                   << >>)
      format == getOutputHashFormat(hashing, None)
  IN [ error |-> reduced.error,
       plugins |-> IF reduced.error = "none"
                     THEN [ k \in 1..Len(reduced.bundles) |->
                              ScriptsPlugin(reduced.bundles[k], format) ]
                     ELSE << >> ]

InitScripts ==
  /\ scriptsOption \in EntryPointLists
  /\ scriptFiles \in SUBSET EntryInputs
  /\ scriptsHashing \in ScriptsHashings
  /\ scriptsOutcome = None

\* getCommonConfig is not called
ScriptsIdle ==
  /\ scriptsOption = << >>
  /\ scriptFiles = {}
  /\ scriptsHashing = "none"
  /\ scriptsOutcome = None

\* the call of getCommonConfig, as far as the global scripts go
ProcessGlobalScripts ==
  /\ ~IsSome(scriptsOutcome)
  /\ scriptsOutcome' = Some(GlobalScripts(scriptsOption, scriptsHashing))
  /\ UNCHANGED << scriptsOption, scriptFiles, scriptsHashing >>
  /\ UNCHANGED scriptsFrame

(***************************************************************************)
(* The update-tslint migration                                             *)
(* (src/packages/schematics/angular/migrations/update-10/update-tslint.ts).*)
(* /tslint.json is its extends property and its rules, a map from the      *)
(* names of the rules it defines to their values.                          *)
(***************************************************************************)
TslintVersion == "~6.1.0"

\* versions package.json may ask for
TslintVersions == { TslintVersion, "~5.18.0" }
DependencyTypes == { "dev" }

\* RULES_TO_DELETE and RULES_TO_ADD, as far as the model follows them, and
\* a rule that is in neither
RulesToDelete == { "no-unused-variable" }
RulesToAdd == { "align", "curly" }
OtherRules == { "quotemark" }
RuleNames == RulesToDelete \cup RulesToAdd \cup OtherRules

\* the value a rule has in a configuration: the one RULES_TO_ADD lists for
\* it, another one, or null
ListedValue == "listed"
RuleValues == { ListedValue, "custom", "null" }

\* the rules a configuration can define
RuleSets == UNION { [names -> RuleValues] : names \in SUBSET RuleNames }

\* json.get(['extends']): undefined, a string, or an array of strings
NoExtends == [kind |-> "undefined", value |-> << >>]
ExtendsString(s) == [kind |-> "string", value |-> << s >>]
ExtendsArray(a) == [kind |-> "array", value |-> a]
ExtendsValues ==
  { NoExtends, ExtendsString("tslint:recommended"),
    ExtendsString("tslint:latest"),
    ExtendsArray(<< "tslint:recommended" >>),
    ExtendsArray(<< "tslint:recommended", "tslint-config-prettier" >>) }

TslintConfigs ==
  {None} \cup { Some([extends |-> e, rules |-> r]) :
                  e \in ExtendsValues, r \in RuleSets }
TslintDependencies ==
  {None} \cup { Some([type |-> t, version |-> v]) :
                  t \in DependencyTypes, v \in TslintVersions }

\* json.remove(['rules', rule]) for the rules to delete
RemoveRules(rules, names) == [ n \in DOMAIN rules \ names |-> rules[n] ]

\* lines 120-122: the test that ends the rule before any rule is added.
\* Its second part is reached only when the first is false, with a string,
\* and is false then.
SkipsRuleChanges(extend) ==
  \/ extend # ExtendsString("tslint:recommended")
  \/ /\ extend.kind = "array"
     /\ \E i \in 1..Len(extend.value) :
          extend.value[i] # "tslint:recommended"

\* (mutant) every listed rule is written
AddsRule_Always(rules, name) == TRUE

\* line 131: json.get(ruleName) === undefined
AddsRule(rules, name) == name \notin DOMAIN rules

\* lines 129-134: the listed rules that are not defined are added
AddRules(rules) ==
  [ n \in DOMAIN rules \cup RulesToAdd |->
      IF n \in RulesToAdd /\ AddsRule(rules, n) THEN ListedValue ELSE rules[n] ]

\* the rule of the migration: the tree it leaves and what it logs
UpdateTslint(dependency, config) ==
  IF ~IsSome(dependency)
    THEN [ dependency |-> dependency, config |-> config,
           log |-> << "info: not a dependency" >> ]
  ELSE LET updated == Some([TheValue(dependency) EXCEPT
                              !.version = TslintVersion])
       IN IF ~IsSome(config)
            THEN [ dependency |-> updated, config |-> config,
                   log |-> << "warn: no tslint.json" >> ]
          ELSE LET json == TheValue(config)
                   kept == RemoveRules(json.rules, RulesToDelete)
               IN IF SkipsRuleChanges(json.extends)
                    THEN [ dependency |-> updated,
                           config |-> Some([json EXCEPT !.rules = kept]),
                           log |-> << "warn: does not extend" >> ]
                    ELSE [ dependency |-> updated,
                           config |->
                             Some([json EXCEPT !.rules = AddRules(kept)]),
                           log |-> << >> ]

InitTslint ==
  /\ tslintDependency \in TslintDependencies
  /\ tslintConfig \in TslintConfigs
  /\ tslintAfter = None

\* the migration is not run
TslintIdle ==
  /\ tslintDependency = None
  /\ tslintConfig = None
  /\ tslintAfter = None

\* the migration runs on the tree
RunUpdateTslint ==
  /\ ~IsSome(tslintAfter)
  /\ tslintAfter' = Some(UpdateTslint(tslintDependency, tslintConfig))
  /\ UNCHANGED << tslintDependency, tslintConfig >>
  /\ UNCHANGED tslintFrame

\* the test runner and the builders left alone
ToolsIdle == RunnerIdle /\ OptimizationIdle /\ ShellIdle /\ HtmlIdle /\ ScriptsIdle /\ TslintIdle

\* the schematics rules, the build utilities and the tools left alone
OtherIdle == ChainIdle /\ UtilsIdle /\ ToolsIdle

\* what update() can be handed as the changed files
ChangedFileLists == {None} \cup { Some(S) : S \in SUBSET NormDepFiles }

\* the resources a component can name, the script left out
Loadable == { r \in ResourcePaths : ~IsScriptPath(r) }

(***************************************************************************)
(* SpecLoaderMaps: the loader's two dependency maps under every order of   *)
(* update, get and setAffectedResources.                                   *)
(***************************************************************************)
\* the plugin and the task scheduler left alone
PluginIdle ==
  /\ InitPlugin
  /\ InitTasks
  /\ mode = "aot"
  /\ compilerWatchMode = Some(TRUE)

InitLoaderMaps == InitLoader /\ platform = "win32" /\ PluginIdle /\ OtherIdle

NextLoaderMaps ==
  \/ Update(None)
  \/ \E file \in NormDepFiles, resources \in SUBSET Loadable :
       SetAffectedResources(file, resources)
  \/ \E filePath \in Loadable, deps \in SUBSET RawDepFiles(platform) :
       GetCompileRuns(filePath, PlainHash, deps, FALSE, FALSE)

SpecLoaderMaps == InitLoaderMaps /\ [][NextLoaderMaps]_vars

(***************************************************************************)
(* SpecLoaderQuery: getModifiedResourceFiles under every changed-file list *)
(* and every content of the reverse map.                                   *)
(***************************************************************************)
NextLoaderQuery ==
  \/ \E cf \in ChangedFileLists : Update(cf)
  \/ QueryModifiedResources
  \/ \E file \in NormDepFiles, resources \in SUBSET Loadable :
       SetAffectedResources(file, resources)
  \/ \E deps \in { {}, {Path(PlatformSep(platform), "imp", "scss")} } :
       GetCompileRuns(Path("/", "sty", "scss"), PlainHash, deps, FALSE, FALSE)

SpecLoaderQuery == InitLoaderMaps /\ [][NextLoaderQuery]_vars

(***************************************************************************)
(* SpecLoader: the loader's get() under every outcome of the child         *)
(* compilation and of the sandbox.                                         *)
(***************************************************************************)
\* the files asked of the loader here: a stylesheet and a script
GetTargets == { Path("/", "sty", "scss"), Path("/", "cmp", "ts") }

NextLoader ==
  \/ Update(None)
  \/ \E filePath \in GetTargets : GetRefused(filePath)
  \/ \E filePath \in GetTargets : GetCompileFails(filePath)
  \/ \E filePath \in GetTargets, h \in Hashes,
          hasErrors \in BOOLEAN, sealErr \in BOOLEAN :
       /\ evaluations[h] < MaxEvaluations
       /\ sealErr => ~hasErrors
       /\ GetCompileRuns(filePath, h, {filePath}, hasErrors, sealErr)

InitLoaderGets == InitLoader /\ platform = "posix" /\ PluginIdle /\ OtherIdle

SpecLoader == InitLoaderGets /\ [][NextLoader]_vars

(***************************************************************************)
(* SpecPlugin: compile cycles of one plugin instance, the source files     *)
(* untouched: the analysis, the file emitter, finishModules.               *)
(***************************************************************************)
\* the files the bundler's loader asks the file emitter for in a cycle: the
\* entry file and a file outside the program; util.ts is a module the
\* bundler has or has not (FinishModulesStart)
EmitTargets == {MainFile, OtherFile}

\* the stylesheet of the component and what its child compilation can list
StyleFile == Path("/", "sty", "scss")
StyleDeps(pf) == { {StyleFile}, {StyleFile, Path(PlatformSep(pf), "imp", "scss")} }

InitPluginEmit ==
  /\ InitLoader
  /\ InitPlugin
  /\ InitTasks
  /\ OtherIdle
  /\ platform = "win32"
  /\ compilerWatchMode = Some(TRUE)

NextPlugin ==
  \/ \E hasDiagnostics \in BOOLEAN, imp \in BOOLEAN,
          safeToSkip \in SUBSET TouchedFiles :
       ThisCompilation(hasDiagnostics, imp, safeToSkip)
  \/ \E deps \in StyleDeps(platform) : LoadResource(StyleFile, deps, FALSE)
  \/ \E hasDiagnostics \in BOOLEAN : AnalysisDone(hasDiagnostics)
  \/ \E error \in AnalysisErrors : AnalysisFails(error)
  \/ \E f \in EmitTargets : RequestEmit(f)
  \/ \E f \in EmitTargets : ServeEmit(f)
  \/ \E f \in EmitTargets : RejectEmit(f)
  \/ CompilationAborts
  \/ \E mods \in SUBSET TouchedFiles : FinishModulesStart(mods)
  \/ \E f \in TouchedFiles : Rebuild(f)
  \/ \E f \in TouchedFiles : RebuildModuleDone(f)
  \/ FinishModulesEnd

SpecPlugin == InitPluginEmit /\ [][NextPlugin]_vars

(***************************************************************************)
(* SpecPluginCache: compile cycles of one plugin instance while the clock  *)
(* goes on and source files are written: the source-file cache, the build  *)
(* timestamp, the changed files handed to the resource loader.             *)
(***************************************************************************)
\* what the child compilation of the stylesheet can list here: its loaders
\* may read a source file of the program
StyleSourceDeps == { {StyleFile}, {StyleFile, UtilFile} }

InitPluginCache ==
  /\ InitLoader
  /\ InitPlugin
  /\ InitTasks
  /\ OtherIdle
  /\ platform = "posix"

NextPluginCache ==
  \/ Tick
  \/ \E f \in TouchedFiles : Touch(f)
  \/ ThisCompilation(FALSE, TRUE, {})
  \/ \E deps \in StyleSourceDeps : LoadResource(StyleFile, deps, FALSE)
  \/ QueryModifiedResources
  \/ AnalysisDone(FALSE)
  \/ FinishModulesStart(TouchedFiles)
  \/ \E f \in TouchedFiles : Rebuild(f)
  \/ \E f \in TouchedFiles : RebuildModuleDone(f)
  \/ FinishModulesEnd

SpecPluginCache == InitPluginCache /\ [][NextPluginCache]_vars

(***************************************************************************)
(* SpecTasks: the task scheduler under every set of tasks and              *)
(* dependencies.                                                           *)
(***************************************************************************)
InitTaskScheduler ==
  /\ InitLoader
  /\ PluginIdle
  /\ OtherIdle
  /\ platform = "posix"

NextTasks ==
  \/ \E dependencies \in SUBSET TaskIds : schedule(dependencies)
  \/ finalize
  \/ ExecuteTask

SpecTasks == InitTaskScheduler /\ [][NextTasks]_vars

(***************************************************************************)
(* SpecChain: chain(rules) under every list of synchronous, asynchronous,  *)
(* succeeding and failing rules.                                           *)
(***************************************************************************)
InitChainRun ==
  /\ InitLoader
  /\ PluginIdle
  /\ platform = "posix"
  /\ InitChain
  /\ UtilsIdle
  /\ ToolsIdle

NextChain ==
  \/ CallRule
  \/ \E i \in 1..MaxRules : RuleSettles(i)
  \/ ChainCompletes

SpecChain == InitChainRun /\ [][NextChain]_vars

(***************************************************************************)
(* SpecBuildUtils: getOutputHashFormat and normalizeExtraEntryPoints       *)
(* called with every option, length and list of entries.                   *)
(***************************************************************************)
InitBuildUtils ==
  /\ InitLoader
  /\ PluginIdle
  /\ platform = "posix"
  /\ ChainIdle
  /\ ToolsIdle
  /\ InitUtils

NextBuildUtils ==
  \/ GetOutputHashFormat
  \/ NormalizeExtraEntryPoints

SpecBuildUtils == InitBuildUtils /\ [][NextBuildUtils]_vars

(***************************************************************************)
(* SpecRunner: schematic runs of one SchematicTestRunner, created,         *)
(* subscribed to and completed in every order, while a test reads tasks.   *)
(***************************************************************************)
InitTestRunner ==
  /\ InitLoader
  /\ PluginIdle
  /\ platform = "posix"
  /\ ChainIdle
  /\ UtilsIdle
  /\ OptimizationIdle
  /\ ShellIdle
  /\ HtmlIdle
  /\ ScriptsIdle
  /\ TslintIdle
  /\ InitRunner

NextRunner ==
  \/ runSchematicAsync
  \/ runExternalSchematicAsync
  \/ \E r \in Runs : SubscribeRun(r)
  \/ \E r \in Runs : AddTask(r)
  \/ \E r \in Runs : CompleteRun(r)
  \/ ReadTasks
  \/ MutateReturned

SpecRunner == InitTestRunner /\ [][NextRunner]_vars

(***************************************************************************)
(* SpecOptimization: normalizeOptimization called with every optimization  *)
(* option, and once more with what it returned.                            *)
(***************************************************************************)
InitNormalizeOptimization ==
  /\ InitLoader
  /\ PluginIdle
  /\ platform = "posix"
  /\ ChainIdle
  /\ UtilsIdle
  /\ RunnerIdle
  /\ ShellIdle
  /\ HtmlIdle
  /\ ScriptsIdle
  /\ TslintIdle
  /\ InitOptimization

NextOptimization ==
  \/ NormalizeOptimization
  \/ NormalizeNormalized

SpecOptimization == InitNormalizeOptimization /\ [][NextOptimization]_vars

(***************************************************************************)
(* SpecAppShell: one run of the app-shell builder, with every way its two  *)
(* builds and the rendering can end.                                       *)
(***************************************************************************)
InitAppShell ==
  /\ InitLoader
  /\ PluginIdle
  /\ platform = "posix"
  /\ ChainIdle
  /\ UtilsIdle
  /\ RunnerIdle
  /\ OptimizationIdle
  /\ HtmlIdle
  /\ ScriptsIdle
  /\ TslintIdle
  /\ InitShell

NextAppShell ==
  \/ ScheduleBrowserTarget
  \/ \E scheduled \in BOOLEAN : ScheduleServerTarget(scheduled)
  \/ \E outcome \in BrowserOutcomes : BrowserBuildSettles(outcome)
  \/ \E outcome \in ServerOutcomes : ServerBuildSettles(outcome)
  \/ AwaitBuilds
  \/ \E throws \in BOOLEAN : RenderUniversal(throws)
  \/ CallStops
  \/ BrowserStopCompletes
  \/ ServerStopCompletes
  \/ DeliverResult

SpecAppShell == InitAppShell /\ [][NextAppShell]_vars

(***************************************************************************)
(* SpecIndexHtml: one IndexHtmlGenerator, made with every choice of        *)
(* optimization and post transform, and one call of process().             *)
(***************************************************************************)
InitIndexHtml ==
  /\ InitLoader
  /\ PluginIdle
  /\ platform = "posix"
  /\ ChainIdle
  /\ UtilsIdle
  /\ RunnerIdle
  /\ OptimizationIdle
  /\ ShellIdle
  /\ ScriptsIdle
  /\ TslintIdle
  /\ InitHtml

NextIndexHtml ==
  \/ NewIndexHtmlGenerator
  \/ ProcessStarts
  \/ CallPlugin
  \/ \E warned \in BOOLEAN, failed \in BOOLEAN : PluginSettles(warned, failed)
  \/ ProcessReturns

SpecIndexHtml == InitIndexHtml /\ [][NextIndexHtml]_vars

(***************************************************************************)
(* SpecScripts: getCommonConfig called with every scripts option, with     *)
(* script files that exist or do not, with and without output hashing.     *)
(***************************************************************************)
InitGlobalScripts ==
  /\ InitLoader
  /\ PluginIdle
  /\ platform = "posix"
  /\ ChainIdle
  /\ UtilsIdle
  /\ RunnerIdle
  /\ OptimizationIdle
  /\ ShellIdle
  /\ HtmlIdle
  /\ TslintIdle
  /\ InitScripts

NextScripts == ProcessGlobalScripts

SpecScripts == InitGlobalScripts /\ [][NextScripts]_vars

(***************************************************************************)
(* SpecTslint: the update-tslint migration run on every workspace: tslint  *)
(* a dependency or not, tslint.json there or not, with every extends value *)
(* and every set of rules of the model.                                    *)
(***************************************************************************)
InitUpdateTslint ==
  /\ InitLoader
  /\ PluginIdle
  /\ platform = "posix"
  /\ ChainIdle
  /\ UtilsIdle
  /\ RunnerIdle
  /\ OptimizationIdle
  /\ ShellIdle
  /\ HtmlIdle
  /\ ScriptsIdle
  /\ InitTslint

NextTslint == RunUpdateTslint

SpecTslint == InitUpdateTslint /\ [][NextTslint]_vars

(***************************************************************************)
(* Properties of the resource loader                                       *)
(***************************************************************************)
\* the files of the forward entry of r, normalised
NormalizedDependencies(r) == { normalizePath(f) : f \in getResourceDependencies(r) }

\* C4 as claimed: the two maps are in sync in every state, that is r is in
\* the reverse entry of file f exactly if f is in the forward entry of r
\* (files compared by their normalised paths).
C4_MapsInSync ==
  \A r \in Loadable, k \in NormDepFiles :
    r \in getAffectedResources(k) <=> k \in NormalizedDependencies(r)

\* C4 as amended: a get() that saves the dependencies of r lists r in the
\* reverse entry of every file of its new forward entry, and no step of
\* get() takes anything out of the reverse map; only the inclusion
\* forward-in-reverse is established, the reverse map may list more.
C4_GetSavesDependencies ==
  [][ fileDependencies' # fileDependencies =>
        /\ \A r \in DOMAIN fileDependencies' :
             (~MapHas(fileDependencies, r) \/ fileDependencies'[r] # fileDependencies[r])
               => \A f \in fileDependencies'[r] :
                    /\ MapHas(reverseDependencies', normalizePath(f))
                    /\ r \in reverseDependencies'[normalizePath(f)]
        /\ \A k \in DOMAIN reverseDependencies :
             /\ MapHas(reverseDependencies', k)
             /\ reverseDependencies[k] \subseteq reverseDependencies'[k] ]_vars

\* C4 witness: a resource was recompiled with fewer dependencies and is
\* still listed under a file it depends on no more.
C4_Witness ==
  /\ IsSome(lastGet)
  /\ TheValue(lastGet).settled = "resolved"
  /\ LET r == TheValue(lastGet).filePath
     IN /\ MapHas(fileDependencies, r)
        /\ fileDependencies[r] # {}
        /\ \E k \in NormDepFiles :
             r \in getAffectedResources(k) /\ k \notin NormalizedDependencies(r)

\* C5 as claimed: the sandboxed evaluation runs at most once per distinct
\* child-compilation hash.
C5_EvaluatedOncePerHash == \A h \in Hashes : evaluations[h] <= 1

\* C5 as amended: the sandbox runs only for a hash that has no stored
\* evaluated source; a stored evaluated source is never replaced, so a
\* content that evaluates to a string is evaluated at most once (a content
\* whose evaluation fails stores nothing and is evaluated again); and a
\* get() that resolves under a hash with a stored source resolves with it.
C5_EvaluatedOnlyWhenNotStored ==
  [][ /\ \A h \in Hashes :
           /\ evaluations'[h] > evaluations[h] => ~MapHas(cachedEvaluatedSources, h)
           /\ MapHas(cachedEvaluatedSources, h) =>
                /\ MapHas(cachedEvaluatedSources', h)
                /\ cachedEvaluatedSources'[h] = cachedEvaluatedSources[h]
           /\ IsSome(Evaluate(h)) => evaluations'[h] <= 1
      /\ (IsSome(lastGet') /\ TheValue(lastGet').settled = "resolved") =>
           LET call == TheValue(lastGet')
               h == TheValue(call.hash)
           IN /\ MapHas(cachedSources', h)
              /\ call.source = Some(cachedSources'[h])
              /\ MapHas(cachedSources, h) => call.source = Some(cachedSources[h])
    ]_vars

\* C5 witness: a get() found the evaluated source of its hash stored, and
\* that hash has been evaluated exactly once.
C5_Witness ==
  /\ IsSome(lastGet)
  /\ TheValue(lastGet).settled = "resolved"
  /\ TheValue(lastGet).cached
  /\ evaluations[TheValue(TheValue(lastGet).hash)] = 1

\* a get() of filePath could resolve now
CanResolve(filePath) ==
  ENABLED ( /\ GetCompileRuns(filePath, PlainHash, {filePath}, FALSE, FALSE)
            /\ TheValue(lastGet').settled = "resolved" )

OneHopExpansion ==
  IF IsSome(changedFiles)
    THEN UNION { getAffectedResources(f) : f \in TheValue(changedFiles) }
    ELSE {}

\* C7: getModifiedResourceFiles returns the one-hop expansion of the
\* changed files, the empty set when update() got no changed files, and a
\* call to it changes neither dependency map.
C7_ModifiedIsOneHop ==
  [][ /\ getModifiedResourceFiles' = OneHopExpansion'
      /\ ~IsSome(changedFiles') => getModifiedResourceFiles' = {}
      /\ modifiedResources' # modifiedResources =>
           /\ modifiedResources' = OneHopExpansion
           /\ UNCHANGED << fileDependencies, reverseDependencies >> ]_vars

\* C7 witness: the call returned a resource for a changed file, and one of
\* the returned resources is itself a file with affected resources that
\* were not returned.
C7_Witness ==
  /\ IsSome(changedFiles)
  /\ modifiedResources # {}
  /\ modifiedResources = getModifiedResourceFiles
  /\ \E r \in modifiedResources : ~(getAffectedResources(r) \subseteq modifiedResources)

(***************************************************************************)
(* Properties of the plugin                                                *)
(***************************************************************************)
\* the source files finishModules can find unused
UnusedCandidates == { f \in allProgramFiles(mode) : ~IsDeclarationFile(f) }

\* f is a program file no module of the compilation depends on
NoModuleDependsOn(f) ==
  /\ f \in UnusedCandidates
  /\ \A m \in modules \cap ProgramFiles(mode) : f \notin AllDependencies(m, imports)

\* C1: counting the cycles whose finishModules analyses the program (the
\* compilation has no error), an unused program file is reported by a
\* warning and by no error; it is warned about in such a cycle exactly if
\* the analysed cycle before did not find it unused; and over consecutive
\* analysed cycles that find it unused it has been warned about once.
C1_UnusedWarnedOnce ==
  [][ /\ \A f \in DOMAIN warnedInRun : warnedInRun'[f] <= 1
      /\ (pc = "finishing" /\ pc' = "done") =>
           /\ parentErrors' = parentErrors
           /\ parentErrors = {} =>
                \A f \in UnusedCandidates :
                  /\ (f \in warnings' /\ f \notin warnings)
                       <=> /\ NoModuleDependsOn(f)
                           /\ ~(IsSome(previousUnused) /\ f \in TheValue(previousUnused))
                  /\ NoModuleDependsOn(f) => warnedInRun'[f] = 1
                  /\ NoModuleDependsOn(f) <=> f \in TheValue(previousUnused')
           /\ parentErrors # {} => warnings' = warnings
    ]_vars

\* C1 witness: the second cycle has been analysed without errors, util.ts
\* was found unused by it and by the cycle before, and only the first of
\* the two warned.
C1_Witness ==
  /\ pc = "done"
  /\ parentCompilation = 2
  /\ parentErrors = {}
  /\ UtilFile \in TheValue(previousUnused)
  /\ UtilFile \notin warnings
  /\ warnedInRun[UtilFile] = 1

\* C2: program.emit runs for a file only in a call of the file emitter for
\* that file, made by the loader (a pending request) or by the rebuild of a
\* required file's module in finishModules, and after the analysis; the
\* thisCompilation handler emits nothing, and a file that was not requested
\* is not emitted.
C2_EmitOnlyWhenRequested ==
  [][ /\ \A f \in emitted' \ emitted :
           /\ analysis = "done"
           /\ \/ pc = "building" /\ f \in pending
              \/ pc = "finishing" /\ f \in modules /\ f \in requiredFilesToEmit
           /\ IsSome(lastEmit')
           /\ TheValue(lastEmit').file = f
           /\ TheValue(lastEmit').result = "emitted"
      /\ emitted' \subseteq requested'
      /\ pc' = "building" /\ pc # "building" => emitted' = {}
    ]_vars

\* C2 witness: a cycle has ended in which main.ts was emitted on request
\* and util.ts, though the analysis required it, was neither requested nor
\* emitted.
C2_Witness ==
  /\ pc = "done"
  /\ mode = "aot"
  /\ MainFile \in emitted
  /\ UtilFile \notin requested
  /\ UtilFile \notin emitted
  /\ UtilFile \notin safeToSkipEmit

\* C8: in AOT, from the end of the analysis to finishModules,
\* requiredFilesToEmit holds the program files that are no declaration
\* files, are not in ignoreForEmit and are not safe to skip, less those
\* emitted since; nothing an earlier cycle left in the set stays.
C8_RequiredAfterAnalysis ==
  (mode = "aot" /\ pc = "building" /\ analysis = "done") =>
    requiredFilesToEmit =
      { f \in ProgramFiles(mode) :
          /\ ~IsDeclarationFile(f)
          /\ f \notin ignoreForEmit
          /\ f \notin safeToSkipEmit } \ emitted

\* C8 witness: the analysis found a name an aborted cycle had left in the
\* set, that file is safe to skip now, and the set holds the other file.
C8_Witness ==
  /\ mode = "aot" /\ pc = "building" /\ analysis = "done"
  /\ emitted = {}
  /\ UtilFile \in requiredBefore
  /\ UtilFile \in safeToSkipEmit
  /\ requiredFilesToEmit = {MainFile}

\* C9: the dependencies of an emitted file hold, as paths of the platform,
\* every dependency the builder reports for the file and, in AOT, every
\* resource the file refers to and every file dependency the loader has
\* recorded for that resource.
C9_EmitDependencies ==
  (IsSome(lastEmit) /\ TheValue(lastEmit).result = "emitted") =>
    LET call == TheValue(lastEmit)
    IN /\ \A d \in AllDependencies(call.file, imports) :
            externalizePath(platform, d) \in call.dependencies
       /\ mode = "aot" =>
            \A r \in ResourceDependencies(call.file) :
              /\ externalizePath(platform, r) \in call.dependencies
              /\ \A d \in getResourceDependencies(r) :
                   externalizePath(platform, d) \in call.dependencies

\* C9 witness: main.ts was emitted in AOT after its stylesheet was compiled
\* with an import, and the import is among the dependencies.
C9_Witness ==
  /\ IsSome(lastEmit)
  /\ TheValue(lastEmit).result = "emitted"
  /\ TheValue(lastEmit).file = MainFile
  /\ mode = "aot"
  /\ imports
  /\ Cardinality(getResourceDependencies(StyleFile)) = 2
  /\ \A d \in getResourceDependencies(StyleFile) :
       externalizePath(platform, d) \in TheValue(lastEmit).dependencies
  /\ externalizePath(platform, UtilFile) \in TheValue(lastEmit).dependencies

\* C3: in a cycle that finds a source-file cache kept by the cycle before,
\* every cached file whose reported timestamp is newer than the last build
\* timestamp is evicted (the program of this cycle parses it again) and is
\* in the changed files handed to the resource loader, every resource the
\* reverse map lists for it is among the modified resources the loader then
\* reports, and the entry of a cached file whose timestamp is the one it
\* was parsed at is the entry it was.
C3_ChangedFilesEvicted ==
  [][ (pc # "building" /\ pc' = "building" /\ IsSome(sourceFileCache)) =>
        LET cache == TheValue(sourceFileCache)
            kept == TheValue(sourceFileCache')
        IN /\ IsSome(sourceFileCache')
           /\ IsSome(changedFiles')
           /\ \A f \in DOMAIN cache :
                /\ fileTimestamps[f] > TheValue(buildTimestamp) =>
                     /\ f \in TheValue(changedFiles')
                     /\ MapHas(kept, f) => kept[f].cycle = parentCompilation'
                     /\ getAffectedResources(f) \subseteq getModifiedResourceFiles'
                /\ fileTimestamps[f] = cache[f].stamp =>
                     /\ MapHas(kept, f)
                     /\ kept[f] = cache[f]
    ]_vars

\* C3 witness: the second cycle found util.ts written since the first
\* build, with the stylesheet listed for it in the reverse map: util.ts is
\* a changed file and parsed again, the stylesheet is reported modified, and
\* the entry of main.ts is the one of the first cycle.
C3_Witness ==
  /\ pc = "building"
  /\ parentCompilation = 2
  /\ IsSome(sourceFileCache)
  /\ IsSome(changedFiles)
  /\ TheValue(changedFiles) = {UtilFile}
  /\ TheValue(sourceFileCache)[UtilFile].cycle = 2
  /\ TheValue(sourceFileCache)[MainFile].cycle = 1
  /\ getAffectedResources(UtilFile) = {StyleFile}
  /\ StyleFile \in getModifiedResourceFiles
  /\ modifiedResources = {StyleFile}

(***************************************************************************)
(* Properties of the task scheduler                                        *)
(***************************************************************************)
\* the tasks t depends on, directly or through other tasks
RECURSIVE DependsOn(_, _)
DependsOn(t, seen) ==
  LET direct == (IF MapHas(taskQueue, t) THEN taskQueue[t] ELSE {}) \ seen
  IN direct \cup UNION { DependsOn(d, seen \cup direct) : d \in direct }

\* the declared dependencies hold a cycle
HasCycle == \E t \in DOMAIN taskQueue : t \in DependsOn(t, {})

\* C10: the order finalize() produces holds every scheduled task once, each
\* after all the tasks it depends on, and the tasks are executed in that
\* order; when the dependencies hold a cycle finalize() fails with
\* CyclicTaskDependencyError, produces no order, and no task is executed.
C10_TasksInDependencyOrder ==
  IsSome(finalized) =>
    LET result == TheValue(finalized)
        order == result.order
    IN /\ HasCycle =>
            /\ result.error = "CyclicTaskDependencyError"
            /\ order = << >>
            /\ executed = << >>
       /\ ~HasCycle =>
            /\ result.error = "none"
            /\ Placed(order) = DOMAIN taskQueue
            /\ Len(order) = Cardinality(DOMAIN taskQueue)
            /\ \A i \in 1..Len(order) :
                 \A d \in taskQueue[order[i]] :
                   \E j \in 1..(i - 1) : order[j] = d
       /\ Len(executed) <= Len(order)
       /\ \A i \in 1..Len(executed) : executed[i] = order[i]

\* C10 witness: three tasks, the first scheduled depending on the two
\* scheduled after it, have all been executed, the first one last.
C10_Witness ==
  /\ IsSome(finalized)
  /\ Cardinality(DOMAIN taskQueue) = 3
  /\ taskQueue[1] = {2, 3}
  /\ Len(executed) = 3
  /\ executed[3] = 1

(***************************************************************************)
(* Properties of chain(rules)                                              *)
(***************************************************************************)
\* the rules chain has called
CalledRules == DOMAIN ruleInput

\* C11: chain(rules) is strictly sequential.  At most one rule of the chain
\* is running, and it is the rule called last; a rule after the first was
\* called with the final Tree of the rule before it; the markers in the
\* Tree are in the order of the rules, so no two rules interleaved their
\* writes; a rule is called only when no rule before it fails; and when the
\* chain has failed, it failed with its first failing rule and no rule after
\* that one was called.
C11_ChainSequential ==
  /\ \A i \in chainRunning : i = chainNext - 1
  /\ \A i \in CalledRules :
       /\ \A j \in 1..(i - 1) : ~chainRules[j].fails
       /\ i > 1 => /\ MapHas(ruleOutput, i - 1)
                   /\ ruleInput[i] = ruleOutput[i - 1]
  /\ \A j, k \in 1..Len(chainTree) : j < k => chainTree[j] <= chainTree[k]
  /\ chainOutcome.state = "failed" =>
       /\ chainRules[chainOutcome.rule].fails
       /\ CalledRules = 1..chainOutcome.rule
  /\ chainOutcome.state = "done" =>
       /\ CalledRules = 1..Len(chainRules)
       /\ \A i \in CalledRules : MapHas(ruleOutput, i)

\* a chain of three rules has failed with its second rule, a synchronous
\* one called after the asynchronous first rule had written twice
C11_Witness ==
  /\ Len(chainRules) = 3
  /\ chainRules[1].async
  /\ ~chainRules[2].async
  /\ chainOutcome = [ state |-> "failed", rule |-> 2 ]
  /\ chainTree = << 1, 1 >>
  /\ chainRunning = {}

(***************************************************************************)
(* Properties of the build utilities                                       *)
(***************************************************************************)
\* the length the suffixes of the last getOutputHashFormat call are to have
GivenLength == IF IsSome(hashLength) THEN TheValue(hashLength) ELSE DefaultHashLength

\* a hash suffix of the given length
IsHashSuffix(suffix) ==
  /\ suffix.hash \in { "hash", "chunkhash", "contenthash" }
  /\ suffix.length = GivenLength

\* the format of the claim: which of chunk, extract, file, script have a
\* hash suffix, the others having none
FormatHashes(format, hashed) ==
  \A field \in { "chunk", "extract", "file", "script" } :
    IF field \in hashed THEN IsHashSuffix(format[field])
                        ELSE format[field] = NoSuffix

\* C12: getOutputHashFormat gives 'none' no suffix, 'media' a hash suffix
\* for media files only, 'bundles' one for chunks, extracted CSS and scripts,
\* 'all' one for all four, and every other option value what 'none' gives;
\* each suffix has the given length, 20 when none is given.
C12_HashFormatByOption ==
  IsSome(hashFormat) =>
    LET format == TheValue(hashFormat)
    IN CASE hashOption = "none" -> FormatHashes(format, {})
         [] hashOption = "media" -> FormatHashes(format, {"file"})
         [] hashOption = "bundles" -> FormatHashes(format, {"chunk", "extract", "script"})
         [] hashOption = "all" -> FormatHashes(format, {"chunk", "extract", "file", "script"})
         [] OTHER -> FormatHashes(format, {})

\* the entries of the last normalizeExtraEntryPoints call and its result
\* have the same length
SameLength ==
  Len(TheValue(normalizedEntryPoints)) = Len(extraEntryPoints)

\* an entry names its bundle: its bundleName is there and not empty
HasBundleName(entry) ==
  IsSome(entry.bundleName) /\ TheValue(entry.bundleName) # EmptyName

\* an entry is injected: it is a string, or its inject is true or absent
IsInjected(entry) ==
  entry.kind = "string" \/ entry.inject \in { None, Some(TRUE) }

CycleStarts == pc # "building" /\ pc' = "building"

\* C14: a compile cycle invalidates the source-file cache exactly when an
\* earlier cycle stored one: then the changed files handed to the resource
\* loader are what invalidate returns and the entries invalidate leaves are
\* used again; otherwise the cycle's cache holds only what this cycle
\* parses, the changed files handed to the loader are undefined and
\* getModifiedResourceFiles returns the empty set.  The changed files stay
\* what they are until the next cycle starts, and while they are undefined
\* getModifiedResourceFiles returns the empty set.
C14_InvalidatedIffCachePresent ==
  [][ /\ CycleStarts =>
           IF IsSome(sourceFileCache)
             THEN LET inv == invalidate(TheValue(sourceFileCache),
                                        fileTimestamps, TheValue(buildTimestamp))
                  IN /\ changedFiles' = Some(inv.changed)
                     /\ \A f \in DOMAIN inv.cache : hostCache'[f] = inv.cache[f]
             ELSE /\ changedFiles' = None
                  /\ \A f \in DOMAIN hostCache' :
                       hostCache'[f].cycle = parentCompilation'
                  /\ getModifiedResourceFiles' = {}
      /\ ~CycleStarts => changedFiles' = changedFiles
      /\ ~IsSome(changedFiles') =>
           /\ getModifiedResourceFiles' = {}
           /\ modifiedResources' # modifiedResources => modifiedResources' = {}
    ]_vars

\* a second cycle found no stored cache (watchMode is false): its cache
\* holds what it parsed itself, the loader was handed no changed files, and
\* although util.ts was written after the first build and the reverse map
\* lists the stylesheet for it, no resource is reported modified
C14_Witness ==
  /\ pc = "building"
  /\ parentCompilation = 2
  /\ ~IsSome(sourceFileCache)
  /\ ~IsSome(changedFiles)
  /\ \A f \in DOMAIN hostCache : hostCache[f].cycle = 2
  /\ MapHas(hostCache, UtilFile)
  /\ fileTimestamps[UtilFile] > 0
  /\ getAffectedResources(UtilFile) = {StyleFile}
  /\ getModifiedResourceFiles = {}

\* C15: state is carried between compile cycles only in watch mode.  When
\* a cycle starts with the compiler reporting watchMode false, the plugin
\* holds no source-file cache, no builder and no Angular program, the cycle
\* is handed none, its cache holds only what it parses itself, and the
\* plugin holds none afterwards.  When a cycle after the first starts with
\* watchMode true or not reported, the cache, the builder and the program
\* the plugin holds are those of the cycle before, and they are what this
\* cycle is handed.
C15_StateOnlyInWatchMode ==
  [][ CycleStarts =>
        IF compilerWatchMode = Some(FALSE)
          THEN /\ ~IsSome(sourceFileCache)
               /\ ~IsSome(builder)
               /\ ~IsSome(ngtscNextProgram)
               /\ ~IsSome(oldBuilder') /\ ~IsSome(oldProgram')
               /\ \A f \in DOMAIN hostCache' :
                    hostCache'[f].cycle = parentCompilation'
               /\ ~IsSome(sourceFileCache')
               /\ ~IsSome(builder')
               /\ ~IsSome(ngtscNextProgram')
          ELSE /\ parentCompilation >= 1 =>
                    /\ sourceFileCache = Some(hostCache)
                    /\ builder = Some(parentCompilation)
                    /\ ngtscNextProgram = Some(parentCompilation)
                    /\ oldBuilder' = builder
                    /\ oldProgram' = ngtscNextProgram
                    /\ \A f \in DOMAIN hostCache :
                         fileTimestamps[f] <= TheValue(buildTimestamp) =>
                           hostCache'[f] = hostCache[f]
               /\ sourceFileCache' = Some(hostCache')
               /\ builder' = Some(parentCompilation')
               /\ ngtscNextProgram' = Some(parentCompilation')
    ]_vars

\* two AOT compilations have run with the compiler reporting watchMode
\* false: the plugin holds no cache, no builder and no program, and the
\* second compilation was handed none
C15_Witness ==
  /\ compilerWatchMode = Some(FALSE)
  /\ mode = "aot"
  /\ parentCompilation = 2
  /\ pc = "done"
  /\ ~IsSome(sourceFileCache)
  /\ ~IsSome(builder)
  /\ ~IsSome(ngtscNextProgram)
  /\ ~IsSome(oldBuilder)
  /\ ~IsSome(oldProgram)

\* C16: no file is emitted before the analysis of the cycle has completed.
\* A call of the file emitter made while the analysis is pending is held:
\* it settles nothing and emits nothing; a held call settles only once the
\* analysis is done or has failed; program.emit runs only in a cycle whose
\* analysis is done; and once the analysis has failed, every call of the
\* file emitter of the cycle, held or made by finishModules, is rejected
\* with the error of the analysis and emits nothing.
C16_EmitAwaitsAnalysis ==
  [][ /\ emitted' \subseteq emitted \/ analysis = "done"
      /\ (pc = "building" /\ analysis = "pending" /\ analysis' = "pending") =>
           /\ pending \subseteq pending'
           /\ pending' \ pending = requested' \ requested
           /\ emitted' = emitted
           /\ lastEmit' = lastEmit
      /\ pending' # pending /\ pending' \subseteq pending => analysis # "pending"
      /\ (analysis \in AnalysisErrors /\ analysis' = analysis) =>
           /\ emitted' = emitted
           /\ emitted = {}
           /\ \A f \in (pending \ pending') \cup (requested' \ (requested \cup pending')) :
                lastEmit' = Some(EmitResult(f, analysis, {}))
    ]_vars

\* the analysis failed with a compiler error while the emitter calls for
\* main.ts and for a file outside the program were made; both have settled,
\* the last with that error, and nothing was emitted
C16_Witness ==
  /\ pc = "building"
  /\ analysis = "CompilerError"
  /\ requested = EmitTargets
  /\ pending = {}
  /\ emitted = {}
  /\ IsSome(lastEmit)
  /\ TheValue(lastEmit).result = "CompilerError"

\* a call of the file emitter made by createFileEmitter runs in this step
\* for f: a held call goes on, or finishModules rebuilds the module of f
EmitterCalled(f) ==
  /\ analysis = "done"
  /\ \/ f \in pending \ pending'
     \/ pc = "finishing" /\ f \in rebuilding \ rebuilding'

\* C17: in AOT, a call of the file emitter for a file of the program takes
\* that file, and no other, out of requiredFilesToEmit and records it, and
\* no other, as successfully emitted; a call for a file that is not in the
\* program returns undefined, runs no emit and leaves requiredFilesToEmit
\* and the recorded emits as they were.
C17_EmitterEffect ==
  [][ \A f \in EmitTargets \cup TouchedFiles :
        (mode = "aot" /\ EmitterCalled(f)) =>
          /\ IsSome(lastEmit') /\ TheValue(lastEmit').file = f
          /\ IF f \in ProgramFiles(mode)
               THEN /\ TheValue(lastEmit').result = "emitted"
                    /\ requiredFilesToEmit' = requiredFilesToEmit \ {f}
                    /\ successfulEmits' = successfulEmits \cup {f}
               ELSE /\ TheValue(lastEmit').result = "undefined"
                    /\ requiredFilesToEmit' = requiredFilesToEmit
                    /\ successfulEmits' = successfulEmits
                    /\ emitted' = emitted
    ]_vars

\* in AOT the emitter was called for main.ts and then for a file outside
\* the program: main.ts is recorded and no longer required, util.ts is
\* still required, and the second call returned undefined
C17_Witness ==
  /\ mode = "aot"
  /\ pc = "building"
  /\ requested = EmitTargets
  /\ pending = {}
  /\ successfulEmits = {MainFile}
  /\ requiredFilesToEmit = {UtilFile}
  /\ IsSome(lastEmit)
  /\ TheValue(lastEmit) = EmitResult(OtherFile, "undefined", {})

\* C18: finishModules rebuilds the modules of the files still in
\* requiredFilesToEmit one at a time.  The loop goes to one required file per
\* turn, and only when no rebuild is under way, so at most one module is
\* being rebuilt; a required file without a module is skipped: nothing is
\* rebuilt, requested or emitted for it; the module of another is handed
\* to rebuildModule; and when the step ends, with or without errors in the
\* compilation, the loop has been at every file the set held, no rebuild is
\* under way and requiredFilesToEmit is empty.
C18_RebuildOneAtATime ==
  [][ /\ Cardinality(rebuilding') <= 1
      /\ (pc = "finishing" /\ visited' # visited /\ pc' = "finishing") =>
           /\ rebuilding = {}
           /\ \E f \in requiredFilesToEmit \ visited :
                /\ visited' = visited \cup {f}
                /\ IF f \in modules
                     THEN rebuilding' = {f}
                     ELSE /\ rebuilding' = {}
                          /\ requested' = requested
                          /\ emitted' = emitted
                          /\ lastEmit' = lastEmit
                          /\ requiredFilesToEmit' = requiredFilesToEmit
      /\ (pc = "finishing" /\ pc' # "finishing") =>
           /\ requiredFilesToEmit \subseteq visited
           /\ rebuilding = {}
           /\ requiredFilesToEmit' = {}
    ]_vars

\* in a compilation with an error the loop of finishModules has been at
\* main.ts, whose module was rebuilt and emitted, and at util.ts, which has
\* no module and was skipped: util.ts is still in the set the step is about
\* to clear
C18_Witness ==
  /\ mode = "aot"
  /\ pc = "finishing"
  /\ parentErrors # {}
  /\ modules = {MainFile}
  /\ visited = {MainFile, UtilFile}
  /\ rebuilding = {}
  /\ MainFile \in emitted
  /\ UtilFile \notin requested
  /\ requiredFilesToEmit = {UtilFile}

\* C19: when the compilation has an error at the end of finishModules, the
\* analysis for unused files is skipped: no warning is added and the
\* remembered set of unused files is left as it was.  In a compilation
\* without errors the warnings added are for the unused files the
\* remembered set does not hold, so what was reported before a failing cycle
\* stays suppressed after it.
C19_ErrorsSkipUnusedAnalysis ==
  [][ (pc = "finishing" /\ pc' # "finishing") =>
        IF parentErrors # {}
          THEN /\ warnings' = warnings
               /\ previousUnused' = previousUnused
          ELSE /\ previousUnused' = Some(CurrentUnused)
               /\ warnings' \ warnings =
                    { f \in CurrentUnused :
                        ~IsSome(previousUnused) \/ f \notin TheValue(previousUnused) }
    ]_vars

\* the first cycle reported util.ts as unused; the second, in which main.ts
\* imports util.ts, ended with an error: it warned about nothing and util.ts
\* is still remembered as reported
C19_Witness ==
  /\ pc = "done"
  /\ parentCompilation = 2
  /\ parentErrors # {}
  /\ imports
  /\ warnings = {}
  /\ previousUnused = Some({UtilFile})
  /\ warnedInRun[UtilFile] = 1

\* C20: a get(filePath) made while no parent compilation is set, or for a
\* path that ends in .js or .ts, returns a rejected promise and creates no
\* child compiler; the forward map, the reverse map, the two source caches,
\* the errors of the parent compilation and the count of evaluations are
\* what they were before the call.
C20_RefusedGetChangesNothing ==
  [][ IsSome(lastGet') =>
        LET call == TheValue(lastGet')
        IN (parentCompilation = 0 \/ IsScriptPath(call.filePath)) =>
             /\ call.settled = "rejected"
             /\ call.compilers = 0
             /\ ~call.failed
             /\ ~IsSome(call.source)
             /\ fileDependencies' = fileDependencies
             /\ reverseDependencies' = reverseDependencies
             /\ cachedSources' = cachedSources
             /\ cachedEvaluatedSources' = cachedEvaluatedSources
             /\ parentErrors' = parentErrors
             /\ evaluations' = evaluations
    ]_vars

\* with a parent compilation set and the stylesheet loaded, held in both
\* maps and in a source cache, a get() for the script was rejected without
\* a child compiler
C20_Witness ==
  /\ parentCompilation >= 1
  /\ IsSome(lastGet)
  /\ IsScriptPath(TheValue(lastGet).filePath)
  /\ TheValue(lastGet).settled = "rejected"
  /\ TheValue(lastGet).compilers = 0
  /\ MapHas(fileDependencies, Path("/", "sty", "scss"))
  /\ reverseDependencies # EmptyMap
  /\ cachedSources # EmptyMap


(***************************************************************************)
(* C21  _evaluate yields a string or the error                             *)
(***************************************************************************)
\* the get() call of this step evaluated the asset of hash h in the sandbox
Evaluated(h) == evaluations'[h] = evaluations[h] + 1

\* the get() call of this step was rejected by its child compilation
RejectedByCompilation ==
  /\ IsSome(lastGet')
  /\ TheValue(lastGet').settled = "rejected"
  /\ TheValue(lastGet').failed

\* C21: an evaluation in the sandbox ends in one of two ways.  When the
\* exported resource is a string ('' included), or is an object whose
\* default is a string, that string is stored under the hash of the
\* compilation in the evaluated-source cache; for every other export the
\* get() is rejected and the evaluated-source cache is left as it was.
C21_EvaluateStringOrError ==
  [][ \A h \in Hashes :
        Evaluated(h) =>
          \/ /\ h.kind \in {"string", "default"}
             /\ cachedEvaluatedSources' =
                  MapSet(cachedEvaluatedSources, h, StringOf(h))
          \/ /\ h.kind = "empty"
             /\ cachedEvaluatedSources' =
                  MapSet(cachedEvaluatedSources, h, EmptyString)
          \/ /\ h.kind = "invalid"
             /\ cachedEvaluatedSources' = cachedEvaluatedSources
             /\ RejectedByCompilation ]_vars

\* an export that is no string was evaluated and stored nothing, and a
\* default export was evaluated and stored
C21_Witness ==
  /\ evaluations[[kind |-> "invalid"]] >= 1
  /\ ~MapHas(cachedEvaluatedSources, [kind |-> "invalid"])
  /\ evaluations[[kind |-> "default"]] >= 1
  /\ MapHas(cachedEvaluatedSources, [kind |-> "default"])
  /\ cachedEvaluatedSources[[kind |-> "default"]] = StringOf([kind |-> "default"])


(***************************************************************************)
(* C22  the build timestamp                                                *)
(***************************************************************************)
\* the cached files that were written after the recorded build timestamp
WrittenSinceBuild ==
  { f \in DOMAIN TheValue(sourceFileCache) :
      fileTimestamps[f] > TheValue(buildTimestamp) }

C23_TasksOfMostRecentRun ==
  runsCreated > 0 =>
    /\ \A i \in 1..Len(engineTasks) : engineTasks[i].run = runsCreated
    /\ runState[runsCreated] = "done" =>
         engineTasks = scheduledTasks[runsCreated]


(***************************************************************************)
(* C28  normalizeOptimization                                              *)
(***************************************************************************)
\* the option sets styles.inlineCritical itself
SetsInlineCritical(optimization) ==
  /\ optimization.kind = "object"
  /\ optimization.styles.kind = "object"
  /\ IsSome(optimization.styles.inlineCritical)

\* C28: in what normalizeOptimization returns, styles.inlineCritical is
\* false unless the option sets it itself; a boolean option b gives
\* scripts, styles.minify and fonts.inline all b; and normalizing what was
\* returned returns an equal value.
C28_InlineCriticalFalseUnlessSet ==
  IsSome(normalizedOptimization) =>
    LET result == TheValue(normalizedOptimization)
    IN /\ ~SetsInlineCritical(optimizationInput) =>
            result.styles.inlineCritical = Some(FALSE)
       /\ optimizationInput.kind = "boolean" =>
            /\ result.scripts = optimizationInput
            /\ result.styles.minify = Some(optimizationInput.value)
            /\ result.fonts.inline = Some(optimizationInput.value)
       /\ IsSome(renormalizedOptimization) =>
            TheValue(renormalizedOptimization) = result


(***************************************************************************)
(* C24, C25  the app-shell builder                                         *)
(***************************************************************************)
\* the builder leaves try / catch in this step
LeavesTry == shellPc \in {"awaiting", "rendering"} /\ shellPc' = "finally"

\* C24: once both targets are scheduled, whatever way the builder leaves
\* try / catch (a build failed, a result promise rejected, the rendering
\* threw or succeeded) its next step calls stop() on both runs, and its
\* result is delivered only when both stops have completed.
C24_StopsBeforeResult ==
  /\ [](IsSome(shellResult) /\ IsSome(serverSchedule) =>
          browserStop = "done" /\ serverStop = "done")
  /\ [](shellPc \in {"stopping", "delivered"} =>
          browserStop # "none" /\ serverStop # "none")
  /\ [][ /\ LeavesTry => browserStop = "none" /\ serverStop = "none"
         /\ shellPc = "finally" /\ shellPc' # "finally" =>
              browserStop' = "called" /\ serverStop' = "called"
         /\ shellResult' # shellResult /\ IsSome(serverSchedule) =>
              browserStop = "done" /\ serverStop = "done" ]_vars

\* the rendering threw, both runs were stopped, and the error result was
\* delivered
C24_Witness ==
  /\ shellPc = "delivered"
  /\ shellResult = Some(ErrorResult("render"))
  /\ browserStop = "done"
  /\ serverStop = "done"

\* the builder leaves the await of the two builds in this step
BuildsAwaited == shellPc = "awaiting" /\ shellPc' # "awaiting"

RECURSIVE Concatenation(_)
Concatenation(seqs) ==
  IF seqs = << >> THEN << >> ELSE Head(seqs) \o Concatenation(Tail(seqs))

\* options.optimization asks for the inlining of fonts, of critical CSS
InlinesFonts ==
  /\ IsSome(htmlOptions.optimization)
  /\ TheValue(htmlOptions.optimization).fonts.inline = Some(TRUE)
InlinesCritical ==
  /\ IsSome(htmlOptions.optimization)
  /\ TheValue(htmlOptions.optimization).styles.inlineCritical = Some(TRUE)

\* C26: the plugins of a generator are augment-index-html, then the font
\* inlining if optimization.fonts.inline, then the critical-CSS inlining if
\* optimization.styles.inlineCritical, then the post transform.  process()
\* calls them in that order, the next one only when the one before has
\* resolved, the first with the index file and each other one with the
\* content the one before resolved with; it returns the content of the
\* last one with the warnings and the errors of all of them, in the order
\* of the plugins.
C26_PluginsInOrder ==
  LET expected ==
        << "augment" >>
        \o (IF InlinesFonts THEN << "fonts" >> ELSE << >>)
        \o (IF InlinesCritical THEN << "critical" >> ELSE << >>)
        \o << "post" >>
  IN /\ IsSome(htmlPlugins) => TheValue(htmlPlugins) = expected
     /\ Len(htmlCalls) <= Len(expected)
     /\ Len(htmlCalls) = Len(htmlResults) + (IF htmlRunning THEN 1 ELSE 0)
     /\ \A i \in 1..Len(htmlCalls) :
          /\ htmlCalls[i].plugin = expected[i]
          /\ htmlCalls[i].html = IF i = 1 THEN IndexContent
                                 ELSE htmlResults[i - 1].content
     /\ IsSome(htmlReturned) =>
          /\ Len(htmlResults) = Len(expected)
          /\ TheValue(htmlReturned).content =
               htmlResults[Len(expected)].content
          /\ TheValue(htmlReturned).warnings =
               Concatenation([i \in 1..Len(expected) |-> htmlResults[i].warnings])
          /\ TheValue(htmlReturned).errors =
               Concatenation([i \in 1..Len(expected) |-> htmlResults[i].errors])

\* process() of a generator with both inlinings and a post transform has
\* returned: four plugins were called, and the warnings are those of the
\* font inlining followed by those of the critical-CSS inlining
C26_Witness ==
  /\ IsSome(htmlReturned)
  /\ Len(htmlCalls) = 4
  /\ TheValue(htmlReturned).content =
       << "index", "augment", "fonts", "critical", "post" >>
  /\ TheValue(htmlReturned).warnings =
       << << "fonts", "warning" >>, << "critical", "warning" >> >>
  /\ TheValue(htmlReturned).errors = << << "critical", "error" >> >>


(***************************************************************************)
(* C27  the global scripts bundles                                         *)
(***************************************************************************)
\* the scripts option gives one bundle name an injected and a non-injected
\* entry
MixesInjected(scripts) ==
  LET entries == normalizeExtraEntryPoints(scripts, ScriptsBundleName)
  IN \E i, j \in 1..Len(entries) :
       /\ entries[i].bundleName = entries[j].bundleName
       /\ entries[i].inject
       /\ ~entries[j].inject

\* the entries of the scripts option that go to the bundle of that name
EntriesOf(scripts, name) ==
  LET entries == normalizeExtraEntryPoints(scripts, ScriptsBundleName)
  IN { i \in 1..Len(entries) : entries[i].bundleName = name }

\* C27: when every script file is found, a scripts option that gives one
\* bundle name both an injected and a non-injected entry, in either order,
\* is rejected with the mixing error; an option that is accepted gives each
\* bundle one plugin, a bundle of lazy entries a file name without a hash
\* and a bundle of injected entries the script hash suffix.
C27_MixedBundleRejected ==
  (IsSome(scriptsOutcome) /\ TheValue(scriptsOutcome).error # "missing") =>
    LET outcome == TheValue(scriptsOutcome)
        entries == normalizeExtraEntryPoints(scriptsOption, ScriptsBundleName)
        format == getOutputHashFormat(scriptsHashing, None)
    IN /\ MixesInjected(scriptsOption) <=> outcome.error = "mixing"
       /\ outcome.error = "none" =>
            \A k \in 1..Len(outcome.plugins) :
              LET plugin == outcome.plugins[k]
                  lazy == \A i \in EntriesOf(scriptsOption, plugin.name) :
                            ~entries[i].inject
              IN plugin.filename.hash =
                   IF lazy THEN NoSuffix ELSE format.script


(***************************************************************************)
(* C29  the update-tslint migration                                        *)
(***************************************************************************)
\* the listed rules the configuration defines
ListedRulesOf(config) ==
  IF IsSome(config) THEN DOMAIN TheValue(config).rules \cap RulesToAdd ELSE {}

====
